---- MODULE Spec2Model ----
(***************************************************************************)
(* Model of the encoder of src/functions/v2/UnifiedEmbeddingV3.js (second  *)
(* script of the file, lines 914-1448): dictionary compression of a        *)
(* payload, then the comment selector and the angle selector driven by the *)
(* compressed bitstream.                                                   *)
(*                                                                         *)
(* Strings are sequences of UTF-16 code units (naturals), as in JavaScript.*)
(* Bit strings ('0'/'1' text in the source) are sequences over {0, 1}.     *)
(***************************************************************************)
EXTENDS Integers, Sequences, FiniteSets, TLC

(***************************************************************************)
(* Generic helpers for JavaScript string / array primitives.               *)
(***************************************************************************)

Min2(a, b) == IF a <= b THEN a ELSE b

Max2(a, b) == IF a >= b THEN a ELSE b

RECURSIVE Pow2(_)
Pow2(k) == IF k = 0 THEN 1 ELSE 2 * Pow2(k - 1)

\* String.prototype.substr(i, L) on 0-based index i.
Substr(s, i, L) == SubSeq(s, i + 1, Min2(Len(s), i + L))

\* s[i] with a 0-based index.
At(s, i) == s[i + 1]

\* Array.prototype.flat() / concatenation of a sequence of sequences.
\* (Computed by halves, so that long arrays need few nested evaluations.)
RECURSIVE Flat(_)
Flat(ss) ==
    IF Len(ss) = 0 THEN <<>>
    ELSE IF Len(ss) = 1 THEN ss[1]
    ELSE LET h == Len(ss) \div 2
         IN Flat(SubSeq(ss, 1, h)) \o Flat(SubSeq(ss, h + 1, Len(ss)))

\* Array.prototype.filter(Boolean): the elements of s that are not in dropped.
RECURSIVE FilterOut(_, _)
FilterOut(s, dropped) ==
    IF Len(s) = 0 THEN <<>>
    ELSE IF Len(s) = 1 THEN (IF s[1] \in dropped THEN <<>> ELSE <<s[1]>>)
    ELSE LET h == Len(s) \div 2
         IN FilterOut(SubSeq(s, 1, h), dropped)
              \o FilterOut(SubSeq(s, h + 1, Len(s)), dropped)

\* splice(idx, 1) removing nothing (mutant): the selected angle stays in the pool.
RemoveNothing(s, idx) == s

\* Array.prototype.splice(idx, 1) with a 0-based index.
RemoveAt(s, idx) == SubSeq(s, 1, idx) \o SubSeq(s, idx + 2, Len(s))

\* Math.ceil(Math.log2(x)) for an integer x >= 1.
RECURSIVE CeilLog2From(_, _)
CeilLog2From(x, k) == IF Pow2(k) >= x THEN k ELSE CeilLog2From(x, k + 1)

CeilLog2(x) == CeilLog2From(x, 0)

(***************************************************************************)
(* Bit strings.                                                            *)
(***************************************************************************)

\* Number.prototype.toString(2): no leading zeros, "0" for 0.
RECURSIVE ToBinary(_)
ToBinary(n) == IF n < 2 THEN <<n>> ELSE ToBinary(n \div 2) \o <<n % 2>>

RECURSIVE Zeros(_)
Zeros(k) == IF k <= 0 THEN <<>> ELSE <<0>> \o Zeros(k - 1)

\* String.prototype.padStart(w, "0"): never truncates.
PadStart(b, w) == Zeros(w - Len(b)) \o b

\* String.prototype.padEnd(w, "0").
PadEnd(b, w) == b \o Zeros(w - Len(b))

\* parseInt(bits || "0", 2) || 0
RECURSIVE ParseBits(_)
ParseBits(b) ==
    IF b = <<>> THEN 0 ELSE 2 * ParseBits(SubSeq(b, 1, Len(b) - 1)) + b[Len(b)]

\* takeBits returning the short buffer as it is, without padEnd (mutant).
takeBitsNoPad(bits, count) ==
    IF count <= 0
    THEN [bitsUsed |-> <<>>, remaining |-> bits, insufficient |-> FALSE]
    ELSE IF Len(bits) >= count
    THEN [bitsUsed |-> SubSeq(bits, 1, count),
          remaining |-> SubSeq(bits, count + 1, Len(bits)),
          insufficient |-> FALSE]
    ELSE [bitsUsed |-> bits, remaining |-> <<>>, insufficient |-> TRUE]

\* takeBits returning the unconsumed bits when it pads (mutant): remaining: bits.
takeBitsKeepRest(bits, count) ==
    IF count <= 0
    THEN [bitsUsed |-> <<>>, remaining |-> bits, insufficient |-> FALSE]
    ELSE IF Len(bits) >= count
    THEN [bitsUsed |-> SubSeq(bits, 1, count),
          remaining |-> SubSeq(bits, count + 1, Len(bits)),
          insufficient |-> FALSE]
    ELSE [bitsUsed |-> PadEnd(bits, count), remaining |-> bits, insufficient |-> TRUE]

\* takeBits(bits, count), lines 943-958.
takeBits(bits, count) ==
    IF count <= 0
    THEN [bitsUsed |-> <<>>, remaining |-> bits, insufficient |-> FALSE]
    ELSE IF Len(bits) >= count
    THEN [bitsUsed |-> SubSeq(bits, 1, count),
          remaining |-> SubSeq(bits, count + 1, Len(bits)),
          insufficient |-> FALSE]
    ELSE [bitsUsed |-> PadEnd(bits, count),
          remaining |-> <<>>,
          insufficient |-> TRUE]

\* getBitWidth with ceil(log2(max)) in place of ceil(log2(max + 1)) (mutant).
getBitWidthNoPlusOne(max) == IF max <= 1 THEN 1 ELSE CeilLog2(max)

\* getBitWidth(max), lines 991-993.
getBitWidth(max) == IF max <= 1 THEN 1 ELSE CeilLog2(max + 1)

\* encodeInt(n, max), lines 995-997.
encodeInt(n, max) == PadStart(ToBinary(n), getBitWidth(max))

(***************************************************************************)
(* UTF-16 code units and the UTF-8 conversion of the source.               *)
(***************************************************************************)

IsHighSurrogate(u) == u >= 55296 /\ u <= 56319

IsLowSurrogate(u) == u >= 56320 /\ u <= 57343

\* String.prototype.codePointAt(i), 0-based i < Len(s).
codePointAt(s, i) ==
    LET u == At(s, i) IN
    IF IsHighSurrogate(u) /\ i + 1 < Len(s) /\ IsLowSurrogate(At(s, i + 1))
    THEN (u - 55296) * 1024 + (At(s, i + 1) - 56320) + 65536
    ELSE u

\* The bytes pushed for one code point, lines 969-984.
Utf8Bytes(cp) ==
    IF cp <= 127 THEN <<cp>>
    ELSE IF cp <= 2047 THEN <<192 + (cp \div 64), 128 + (cp % 64)>>
    ELSE IF cp <= 65535
    THEN <<224 + (cp \div 4096), 128 + ((cp \div 64) % 64), 128 + (cp % 64)>>
    ELSE <<240 + (cp \div 262144), 128 + ((cp \div 4096) % 64),
           128 + ((cp \div 64) % 64), 128 + (cp % 64)>>

\* b.toString(2).padStart(8, "0") for each byte, joined.
RECURSIVE BytesToBits(_)
BytesToBits(bytes) ==
    IF bytes = <<>> THEN <<>>
    ELSE PadStart(ToBinary(Head(bytes)), 8) \o BytesToBits(Tail(bytes))

\* The loop of toBinaryUtf8 from index i, lines 965-987.
RECURSIVE toBinaryUtf8From(_, _)
toBinaryUtf8From(str, i) ==
    IF i >= Len(str) THEN <<>>
    ELSE LET cp == codePointAt(str, i)
             next == IF cp > 65535 THEN i + 2 ELSE i + 1
         IN BytesToBits(Utf8Bytes(cp)) \o toBinaryUtf8From(str, next)

\* toBinaryUtf8(str), lines 963-989.
toBinaryUtf8(str) == toBinaryUtf8From(str, 0)

\* The loop of getUtf8ByteLength from index i, lines 1044-1051.
RECURSIVE getUtf8ByteLengthFrom(_, _)
getUtf8ByteLengthFrom(str, i) ==
    IF i >= Len(str) THEN 0
    ELSE LET code == codePointAt(str, i)
             next == IF code > 65535 THEN i + 2 ELSE i + 1
             len == IF code <= 127 THEN 1
                    ELSE IF code <= 2047 THEN 2
                    ELSE IF code <= 65535 THEN 3
                    ELSE 4
         IN len + getUtf8ByteLengthFrom(str, next)

\* getUtf8ByteLength(str), lines 1042-1053.
getUtf8ByteLength(str) == getUtf8ByteLengthFrom(str, 0)

(***************************************************************************)
(* COMPRESSION: compressPayload, lines 1058-1241.                          *)
(***************************************************************************)

MAX_LITERAL_LEN == 250

\* Array(n + 1).fill(Infinity): a dp entry not yet computed.
Infinity == -1

\* references.push({ doc: null, ... }) for a literal token.
NullDoc == -1

\* cost <= dp[i] in place of cost < dp[i] (mutant): the last minimum wins.
CostLessOrEqual(cost, dpi) ==
    IF cost = Infinity THEN FALSE ELSE (dpi = Infinity \/ cost <= dpi)

\* cost < dp[i] on numbers that may be Infinity.
CostLess(cost, dpi) ==
    IF cost = Infinity THEN FALSE ELSE (dpi = Infinity \/ cost < dpi)

\* x + dp[k] where dp[k] may be Infinity.
AddCost(x, dpk) == IF dpk = Infinity THEN Infinity ELSE x + dpk

\* GLOBAL_MAX_MATCH, lines 1079-1081: the longest dictionary entry, in code units.
RECURSIVE GlobalMaxMatch(_)
GlobalMaxMatch(dictionary) ==
    IF dictionary = <<>> THEN 0
    ELSE Max2(Len(Head(dictionary)), GlobalMaxMatch(Tail(dictionary)))

\* The inner while loop of lines 1118-1125 never extending (mutant): every match
\* stays one code unit long.
ExtendMatchNone(payload, i, txt, start, gmm, matchLen) == matchLen

\* The inner while loop of lines 1118-1125 without the comparison of the code units
\* (mutant): every match extends to the cap.
RECURSIVE ExtendMatchBlind(_, _, _, _, _, _)
ExtendMatchBlind(payload, i, txt, start, gmm, matchLen) ==
    IF matchLen < Min2(gmm, Min2(Len(payload) - i, Len(txt) - start))
    THEN ExtendMatchBlind(payload, i, txt, start, gmm, matchLen + 1)
    ELSE matchLen

\* The inner while loop of lines 1118-1125: extend a match from matchLen.
RECURSIVE ExtendMatch(_, _, _, _, _, _)
ExtendMatch(payload, i, txt, start, gmm, matchLen) ==
    IF matchLen < Min2(gmm, Min2(Len(payload) - i, Len(txt) - start))
       /\ At(payload, i + matchLen) = At(txt, start + matchLen)
    THEN ExtendMatch(payload, i, txt, start, gmm, matchLen + 1)
    ELSE matchLen

\* The indexOf loop of lines 1116-1131 over one dictionary entry (0-based doc j),
\* offsets from start upward.
RECURSIVE MatchesInDoc(_, _, _, _, _, _)
MatchesInDoc(payload, i, txt, j, gmm, start) ==
    IF start >= Len(txt) THEN <<>>
    ELSE IF At(txt, start) # At(payload, i)
    THEN MatchesInDoc(payload, i, txt, j, gmm, start + 1)
    ELSE LET matchLen == ExtendMatch(payload, i, txt, start, gmm, 1)
             here == IF matchLen > 2
                     THEN <<[doc |-> j, idx |-> start, len |-> matchLen]>>
                     ELSE <<>>
         IN here \o MatchesInDoc(payload, i, txt, j, gmm, start + 1)

\* matchesAtI of lines 1113-1132: the entries j, j+1, ... of the dictionary in order.
RECURSIVE MatchesAtFrom(_, _, _, _, _)
MatchesAtFrom(payload, i, dictionary, gmm, j) ==
    IF j >= Len(dictionary) THEN <<>>
    ELSE MatchesInDoc(payload, i, At(dictionary, j), j, gmm, 0)
         \o MatchesAtFrom(payload, i, dictionary, gmm, j + 1)

\* matches.get(i): the candidates recorded at payload position i (empty: none).
MatchesAt(payload, i, dictionary) ==
    MatchesAtFrom(payload, i, dictionary, GlobalMaxMatch(dictionary), 0)

\* A choice[i] entry; kind "none" is the initial null.
NoChoice == [kind |-> "none", doc |-> NullDoc, idx |-> 0, len |-> 0]

LiteralChoice(L) == [kind |-> "literal", doc |-> NullDoc, idx |-> 0, len |-> L]

DictChoice(m) == [kind |-> "dict", doc |-> m.doc, idx |-> m.idx, len |-> m.len]

\* Cost of a literal of L code units at i, line 1160.
LiteralCost(payload, dp, i, L) ==
    AddCost(1 + getBitWidth(MAX_LITERAL_LEN)
              + getUtf8ByteLength(Substr(payload, i, L)) * 8,
            dp[i + L])

\* Cost of the reference m at i, lines 1171-1177.
DictCost(dictionary, dp, i, m) ==
    AddCost(1 + getBitWidth(Len(dictionary))
              + getBitWidth(Len(At(dictionary, m.doc)))
              + getBitWidth(GlobalMaxMatch(dictionary)),
            dp[i + m.len])

\* Option A, lines 1154-1165: literals of length L..maxL; best = [cost, choice].
RECURSIVE LiteralLoop(_, _, _, _, _, _)
LiteralLoop(payload, dp, i, L, maxL, best) ==
    IF L > maxL THEN best
    ELSE LET cost == LiteralCost(payload, dp, i, L)
             nb == IF CostLess(cost, best.cost)
                   THEN [cost |-> cost, choice |-> LiteralChoice(L)]
                   ELSE best
         IN LiteralLoop(payload, dp, i, L + 1, maxL, nb)

\* Option B, lines 1168-1184: the recorded matches from position k of mList.
RECURSIVE DictLoop(_, _, _, _, _, _)
DictLoop(dictionary, dp, i, mList, k, best) ==
    IF k > Len(mList) THEN best
    ELSE LET cost == DictCost(dictionary, dp, i, mList[k])
             nb == IF CostLess(cost, best.cost)
                   THEN [cost |-> cost, choice |-> DictChoice(mList[k])]
                   ELSE best
         IN DictLoop(dictionary, dp, i, mList, k + 1, nb)

\* One iteration of the DP loop at position i, lines 1145-1185.
DPStep(payload, dictionary, dp, i) ==
    LET n == Len(payload)
        afterLit == LiteralLoop(payload, dp, i, 1, Min2(MAX_LITERAL_LEN, n - i),
                                [cost |-> Infinity, choice |-> NoChoice])
    IN DictLoop(dictionary, dp, i, MatchesAt(payload, i, dictionary), 1, afterLit)

\* The DP loop for (let i = n - 1; i >= 0; i--), carrying dp and choice.
RECURSIVE DPLoop(_, _, _, _)
DPLoop(payload, dictionary, i, tab) ==
    IF i < 0 THEN tab
    ELSE LET best == DPStep(payload, dictionary, tab.dp, i)
         IN DPLoop(payload, dictionary, i - 1,
                   [dp |-> [tab.dp EXCEPT ![i] = best.cost],
                    choice |-> [tab.choice EXCEPT ![i] = best.choice]])

\* dp and choice after the DP loop, lines 1137-1185.
DPTables(payload, dictionary) ==
    LET n == Len(payload)
    IN DPLoop(payload, dictionary, n - 1,
              [dp |-> [k \in 0..n |-> IF k = n THEN 0 ELSE Infinity],
               choice |-> [k \in 0..(n - 1) |-> NoChoice]])

\* The bits written for one token, lines 1202-1213.
TokenBits(payload, dictionary, currI, ch, safeLen) ==
    IF ch.kind = "literal"
    THEN <<0>> \o encodeInt(safeLen, MAX_LITERAL_LEN)
              \o toBinaryUtf8(Substr(payload, currI, safeLen))
    ELSE <<1>> \o encodeInt(ch.doc, Len(dictionary))
              \o encodeInt(ch.idx, Len(At(dictionary, ch.doc)))
              \o encodeInt(safeLen, GlobalMaxMatch(dictionary))

\* The reconstruction loop while (currI < n), lines 1194-1215: the tokens in order,
\* each with the payload position it starts at and the bits it appends to dictBinary.
RECURSIVE EmitFrom(_, _, _, _)
EmitFrom(payload, dictionary, choice, currI) ==
    IF currI >= Len(payload) THEN <<>>
    ELSE LET ch == IF choice[currI].kind = "none"
                   THEN LiteralChoice(1) ELSE choice[currI]
             safeLen == Max2(1, IF ch.len = 0 THEN 1 ELSE ch.len)
             tok == [kind |-> ch.kind,
                     doc |-> IF ch.kind = "literal" THEN NullDoc ELSE ch.doc,
                     idx |-> IF ch.kind = "literal" THEN currI ELSE ch.idx,
                     len |-> safeLen,
                     at |-> currI,
                     bits |-> TokenBits(payload, dictionary, currI, ch, safeLen)]
         IN <<tok>> \o EmitFrom(payload, dictionary, choice, currI + safeLen)

RECURSIVE JoinBits(_)
JoinBits(toks) == IF toks = <<>> THEN <<>> ELSE Head(toks).bits \o JoinBits(Tail(toks))

\* references: { doc, idx, len } per token, lines 1205 and 1212.
References(toks) ==
    [k \in 1..Len(toks) |->
        [doc |-> toks[k].doc, idx |-> toks[k].idx, len |-> toks[k].len]]

\* The mode decision of line 1220 inverted (mutant): dictionary mode when it is not shorter.
UseStandardInverted(dictLength, stdLength) == dictLength <= stdLength

\* The mode decision of line 1220.
UseStandard(dictLength, stdLength) == dictLength >= stdLength

\* compressPayload(payload, dictionary), lines 1058-1241. The fields dictLength, dp0
\* and tokens expose the locals dictLength, dp[0] and the emitted token list; ratio
\* (a float) is left out, and so is byteOffsets (lines 1087-1097), which is never read.
compressPayload(payload, dictionary) ==
    LET stdBinary == toBinaryUtf8(payload)
        stdLength == 1 + Len(stdBinary)
        tab == DPTables(payload, dictionary)
        toks == EmitFrom(payload, dictionary, tab.choice, 0)
        dictBinary == JoinBits(toks)
        dictLength == 1 + Len(dictBinary)
    IN IF UseStandard(dictLength, stdLength)
       THEN [method |-> "standard",
             payload |-> payload,
             compressed |-> <<0>> \o stdBinary,
             compressedLength |-> stdLength,
             originalLength |-> Len(stdBinary),
             references |-> <<>>,
             dictLength |-> dictLength,
             dp0 |-> tab.dp[0],
             tokens |-> toks]
       ELSE [method |-> "dictionary",
             payload |-> payload,
             compressed |-> <<1>> \o dictBinary,
             compressedLength |-> dictLength,
             originalLength |-> Len(stdBinary),
             references |-> References(toks),
             dictLength |-> dictLength,
             dp0 |-> tab.dp[0],
             tokens |-> toks]

(***************************************************************************)
(* Comment forest. A forest is a heap of comment objects: nodes[k] is the  *)
(* object with reference k >= 1, reference 0 is null; roots and replies    *)
(* are arrays of references. An id is the sequence of its '_'-separated    *)
(* segments: <<"t1", "A">> is "t1_A".                                      *)
(***************************************************************************)

\* flatten(c) returning the replies before the comment itself (mutant): post-order.
RECURSIVE flattenPostOrder(_, _)
flattenPostOrder(nodes, c) ==
    IF c = 0 THEN <<>>
    ELSE Flat([k \in 1..Len(nodes[c].replies) |->
                 flattenPostOrder(nodes, nodes[c].replies[k])]) \o <<c>>

\* flatten(c) of lines 1000-1010 on the comment with reference c.
RECURSIVE flatten(_, _)
flatten(nodes, c) ==
    IF c = 0 THEN <<>>
    ELSE IF nodes[c].replies = <<>> THEN <<c>>
    ELSE <<c>> \o Flat([k \in 1..Len(nodes[c].replies) |->
                          flatten(nodes, nodes[c].replies[k])])

\* flattenComments(comments), lines 999-1014: the references in flattened order.
flattenComments(comments) ==
    FilterOut(Flat([k \in 1..Len(comments.roots) |->
                      flatten(comments.nodes, comments.roots[k])]), {0})

\* A value that is not a string (undefined, null, a number).
NotAString == <<-1>>

\* isNonEmptyString without the length test (mutant): typeof v === "string".
isString(v) == v # NotAString

\* A value that is neither a string nor falsy (a non-zero number, an array, an object).
TruthyNonString == <<-2>>

\* isNonEmptyString(v), lines 26 and 938.
isNonEmptyString(v) == v # NotAString /\ v # TruthyNonString /\ Len(v) > 0

RECURSIVE FilterNonEmptyStrings(_)
FilterNonEmptyStrings(s) ==
    IF Len(s) = 0 THEN <<>>
    ELSE IF Len(s) = 1 THEN (IF isNonEmptyString(s[1]) THEN <<s[1]>> ELSE <<>>)
    ELSE LET h == Len(s) \div 2
         IN FilterNonEmptyStrings(SubSeq(s, 1, h))
              \o FilterNonEmptyStrings(SubSeq(s, h + 1, Len(s)))

\* buildDictionary(scrapeData), lines 1020-1036.
buildDictionary(scrapeData) ==
    LET comments == flattenComments(scrapeData.comments)
        bodies == [k \in 1..Len(comments) |-> scrapeData.comments.nodes[comments[k]].body]
    IN FilterNonEmptyStrings(<<scrapeData.selftext>> \o scrapeData.search_results \o bodies)

(***************************************************************************)
(* EMBEDDING LOGIC: embedInCommentSelection, lines 1247-1316.              *)
(***************************************************************************)

\* commentMap.get(key), lines 1269-1270: a later comment with the same id replaces
\* an earlier one; 0 when the key is absent.
commentMapGet(nodes, F, key, k) ==
    LET entries == {j \in 1..k : nodes[F[j]].id = key}
    IN IF entries = {} THEN 0
       ELSE F[CHOOSE j \in entries : \A i \in entries : i <= j]

\* The parent lookup of lines 1288-1292 without the stripped-id fallback (mutant).
lookupParentExactOnly(nodes, F, parent_id) ==
    commentMapGet(nodes, F, parent_id, Len(F))

\* The parent lookup of lines 1288-1292: exact id, then the segment after the last '_'.
lookupParent(nodes, F, parent_id) ==
    LET parent == commentMapGet(nodes, F, parent_id, Len(F))
    IN IF parent = 0 /\ Len(parent_id) > 1
       THEN commentMapGet(nodes, F, <<parent_id[Len(parent_id)]>>, Len(F))
       ELSE parent

\* The guard of line 1275 never breaking (mutant): no visited-id check.
visitedHasNever(visitedIds, id) == FALSE

\* Line 1275: visitedIds.has(current.id).
visitedHas(visitedIds, id) == id \in visitedIds

\* The object unshifted onto pickedCommentChain, lines 1278-1284.
projectComment(c) ==
    [name |-> IF c.author = "" THEN "Unknown" ELSE c.author,
     body |-> c.body,
     id |-> c.id,
     parent_id |-> c.parent_id,
     permalink |-> c.permalink]

\* pickedCommentChain.push(...) in place of unshift (mutant): the chain leaf first.
chainPush(chain, c) == Append(chain, projectComment(c))

\* pickedCommentChain.unshift({...}), lines 1278-1284.
chainUnshift(chain, c) == <<projectComment(c)>> \o chain

\* The index reduction of line 1264 clamping to n instead of wrapping (mutant).
reduceIndexClamp(s, n) == IF s > n THEN n ELSE s

\* Line 1264: if (selectionIndex > n) selectionIndex = selectionIndex % (n + 1).
reduceIndex(s, n) == IF s > n THEN s % (n + 1) ELSE s

\* bitsCount of line 1255 computed as ceil(log2(n + 1)) without getBitWidth's floor of 1 (mutant).
commentBitsCountBare(n) == CeilLog2(n + 1)

\* Line 1255: const bitsCount = getBitWidth(n).
commentBitsCount(n) == getBitWidth(n)

(***************************************************************************)
(* embedInAngleSelection, lines 1328-1372.                                 *)
(***************************************************************************)

\* TARGET_ANGLE_COUNT set to null.
NullTarget == -1

\* selectedAngles.length < targetCount, line 1340: null converts to 0.
belowTarget(len, targetCount) ==
    IF targetCount = NullTarget THEN len < 0 ELSE len < targetCount

\* bitsNeeded of line 1343 computed with getBitWidth(range) (mutant).
angleBitsNeededWidth(range) == getBitWidth(range)

\* Line 1343: const bitsNeeded = Math.ceil(Math.log2(range)).
angleBitsNeeded(range) == CeilLog2(range)

\* Line 1353 without the reduction: the raw index clamped to the last slot (mutant).
reduceAngleIndexClamp(idx, range) == IF idx >= range THEN range - 1 ELSE idx

\* Line 1353: if (idx >= range) idx = idx % range.
reduceAngleIndex(idx, range) == IF idx >= range THEN idx % range ELSE idx

(***************************************************************************)
(* State.                                                                  *)
(***************************************************************************)

VARIABLES
    pc,                  \* position in the pipeline / in the running function
    payload,             \* the secret text
    post,                \* the carrier: selftext, search_results, comments
    nestedAngles,        \* one list of angles per document
    TARGET_ANGLE_COUNT,  \* line 933: a number >= 0 or NullTarget
    bitsIn,              \* the bitstream handed to a selector
    dictionary,          \* result of buildDictionary
    compression,         \* result of compressPayload
    cs,                  \* locals of embedInCommentSelection
    commentEmb,          \* result of embedInCommentSelection
    an,                  \* locals of embedInAngleSelection
    angleEmb,            \* result of embedInAngleSelection
    fl,                  \* call stack and result of flattenComments run step by step
    warnings,            \* main: const warnings = []
    output,              \* the json of the item main returns
    secret,              \* $("SetSecretData").first()?.json?.payload
    script               \* locals of the stand-alone scripts (keyword encoder,
                         \* UnifiedEmbeddingV2, dataset cleaner)

vars == <<pc, payload, post, nestedAngles, TARGET_ANGLE_COUNT, bitsIn, dictionary,
          compression, cs, commentEmb, an, angleEmb, fl, warnings, output, secret, script>>

\* Not yet assigned.
Unset == [unset |-> TRUE]

NoComments == [nodes |-> <<>>, roots |-> <<>>]

(***************************************************************************)
(* Bounds and input families.                                              *)
(***************************************************************************)

MaxPayloadLen == 4

MaxDocLen == 4

OptRefLen == 3

MaxComments == 4

MaxBits == 4

MaxGroupLen == 2

MaxTarget == 3

\* Payload symbols: 'a', the 3-byte euro sign, and U+1F601 as its surrogate pair.
PayloadSymbols == {<<97>>, <<8364>>, <<55357, 56833>>}

\* Carrier text symbols: 'a' and U+1F600 (same high surrogate as U+1F601).
DocSymbols == {<<97>>, <<55357, 56832>>}

\* Symbols of the two-letter texts: 'a' and 'b'.
PlainSymbols == {<<97>>, <<98>>}

\* All concatenations of at most rounds symbols with at most maxLen code units.
RECURSIVE GrowStrings(_, _, _)
GrowStrings(symbols, maxLen, rounds) ==
    IF rounds = 0 THEN {<<>>}
    ELSE LET prev == GrowStrings(symbols, maxLen, rounds - 1)
         IN prev \cup {t \in {s \o y : s \in prev, y \in symbols} : Len(t) <= maxLen}

StringsUpTo(symbols, maxLen) ==
    {t \in GrowStrings(symbols, maxLen, maxLen) : Len(t) <= maxLen}

BitStrings(maxLen) == UNION {[1..k -> {0, 1}] : k \in 0..maxLen}

\* The ascending sequence of a finite set of numbers.
RECURSIVE SortedSeq(_)
SortedSeq(S) ==
    IF S = {} THEN <<>>
    ELSE LET m == CHOOSE x \in S : \A y \in S : x <= y
         IN <<m>> \o SortedSeq(S \ {m})

IdNames == <<"A", "B", "C", "D", "E", "F">>

LinkId == <<"t3", "P">>

\* The forest with N comments in which comment k replies to comment tp[k] (0: the
\* post). style "exact" stores parent ids as the bare id, "prefixed" as t1_<id>.
ForestOf(N, tp, style, nullRoot) ==
    [nodes |->
        [k \in 1..N |->
            [id |-> <<IdNames[k]>>,
             parent_id |-> IF tp[k] = 0 THEN LinkId
                           ELSE IF style = "exact" THEN <<IdNames[tp[k]]>>
                           ELSE <<"t1", IdNames[tp[k]]>>,
             link_id |-> LinkId,
             author |-> IF k % 2 = 0 THEN "" ELSE "user",
             body |-> IF k % 2 = 0 THEN <<>> ELSE <<97, 97, 97>>,
             permalink |-> IdNames[k],
             replies |-> SortedSeq({j \in 1..N : tp[j] = k})]],
     roots |-> (IF nullRoot THEN <<0>> ELSE <<>>)
               \o SortedSeq({j \in 1..N : tp[j] = 0})]

\* Reply structures: comment k replies to an earlier comment or to the post.
ParentMaps ==
    UNION {{f \in [1..M -> 0..(M - 1)] : \A k \in 1..M : f[k] < k} : M \in 0..MaxComments}

Forests ==
    {ForestOf(Len(tp), tp, style, nullRoot) :
        tp \in ParentMaps, style \in {"exact", "prefixed"}, nullRoot \in BOOLEAN}

\* Angle groups of the given sizes; the angle at position q of document d is the
\* number 10 * d + q, 0 is a null entry (appended to the first group when withNull).
AnglesOf(sizes, withNull) ==
    [d \in 1..Len(sizes) |->
        [q \in 1..sizes[d] |-> 10 * d + q]
        \o (IF withNull /\ d = 1 THEN <<0>> ELSE <<>>)]

AngleFamilies ==
    {AnglesOf(sizes, withNull) :
        sizes \in UNION {[1..g -> 0..MaxGroupLen] : g \in 0..2},
        withNull \in BOOLEAN}

Targets == {NullTarget} \cup 0..MaxTarget

\* The forest with the body of comment k replaced by bodies[k].
WithBodies(comments, bodies) ==
    [comments EXCEPT !.nodes = [k \in 1..Len(comments.nodes) |->
                                   [comments.nodes[k] EXCEPT !.body = bodies[k]]]]

\* The bodies of N comments: comment k has its own one-letter body, or no usable
\* body (null for an odd k, "" for an even k).
BodyChoices(N) ==
    {b \in [1..N -> {NotAString, <<>>} \cup {<<100 + k>> : k \in 1..N}] :
        \A k \in 1..N : b[k] \in {IF k % 2 = 1 THEN NotAString ELSE <<>>, <<100 + k>>}}

\* Forests of at most maxN comments with every choice of bodies.
BodyForests(maxN) ==
    UNION {{WithBodies(ForestOf(Len(tp), tp, "exact", nullRoot), b) :
              b \in BodyChoices(Len(tp))} :
           tp \in {t \in ParentMaps : Len(t) <= maxN}, nullRoot \in BOOLEAN}

\* The id of comment k of a flat comment list: "unique" gives every comment its own
\* id, "duplicate" gives the last comment the id of the first, "shadow" gives
\* comment 2 the id t1_A next to comment 1's id A.
LooseId(k, N, variant) ==
    IF variant = "duplicate" /\ k = N THEN <<IdNames[1]>>
    ELSE IF variant = "shadow" /\ k = 2 THEN <<"t1", IdNames[1]>>
    ELSE <<IdNames[k]>>

\* The parent ids a comment of a list of N comments may carry: the post, any
\* comment (itself included), t1_A, and the id of no comment.
ParentIds(N) ==
    {LinkId, <<"t1", IdNames[1]>>, <<"t1", "Z">>} \cup {<<IdNames[j]>> : j \in 1..N}

\* N comments without replies whose parent ids are par: any assignment, parent
\* cycles and self-parents included.
LooseForestOf(N, variant, par) ==
    [nodes |->
        [k \in 1..N |->
            [id |-> LooseId(k, N, variant),
             parent_id |-> par[k],
             link_id |-> LinkId,
             author |-> IF k % 2 = 0 THEN "" ELSE "user",
             body |-> <<96 + k>>,
             permalink |-> IdNames[k],
             replies |-> <<>>]],
     roots |-> [k \in 1..N |-> k]]

\* Every such list of at most maxN comments.
LooseForests(maxN) ==
    UNION {{LooseForestOf(N, variant, par) :
              par \in [1..N -> ParentIds(N)],
              variant \in {"unique", "duplicate", "shadow"}} :
           N \in 1..maxN}

\* The forest with the comment to added to the replies of the comment from: a
\* cycle through replies when to is from or an ancestor of from, otherwise a comment
\* that is the reply of two parents.
AddReply(comments, from, to) ==
    [comments EXCEPT !.nodes[from].replies = Append(@, to)]

\* Reply structures that are not forests, one for each reply structure of maps and
\* each added reply.
TangledForests(maps) ==
    UNION {{AddReply(ForestOf(Len(tp), tp, "exact", FALSE), from, to) :
              from \in 1..Len(tp), to \in 1..Len(tp)} :
           tp \in maps}

\* The values the SetSecretData node may hold as payload: nothing, a number, or a
\* string (empty, one letter, three letters), bare or as { payload: value }.
Secrets ==
    {[kind |-> k, str |-> <<>>, wrapped |-> w] :
        k \in {"undefined", "number"}, w \in BOOLEAN}
    \cup {[kind |-> "string", str |-> t, wrapped |-> w] :
            t \in {<<>>, <<97>>, <<97, 97, 97>>}, w \in BOOLEAN}

\* Raw angle lists of at most two entries: null, a bare angle, or an array of up to
\* four angles, so that a pool takes from 0 to 17 bits.
RawAngleEntries ==
    {[kind |-> "null", items |-> <<>>],
     [kind |-> "angle", items |-> <<31>>],
     [kind |-> "array", items |-> <<>>],
     [kind |-> "array", items |-> <<11, 0>>],
     [kind |-> "array", items |-> <<21, 22>>],
     [kind |-> "array", items |-> <<41, 42, 43, 44>>]}

RawAngles == UNION {[1..k -> RawAngleEntries] : k \in 0..2}

\* The forests of at most two comments.
SmallForests ==
    {ForestOf(Len(tp), tp, "exact", FALSE) : tp \in {t \in ParentMaps : Len(t) <= 2}}

\* A thread of CrowdSize top-level comments without text: none of them enters the
\* dictionary, and choosing among them takes more bits than the shortest compressed
\* stream has.
CrowdSize == 128

CrowdForest(N) ==
    [nodes |->
        [k \in 1..N |->
            [id |-> <<ToString(k)>>,
             parent_id |-> LinkId,
             link_id |-> LinkId,
             author |-> "user",
             body |-> <<>>,
             permalink |-> ToString(k),
             replies |-> <<>>]],
     roots |-> [k \in 1..N |-> k]]

\* search_results of at most two entries: a document, "" or a non-string.
DocLists ==
    UNION {[1..k -> {NotAString, <<>>, <<98>>, <<99, 99>>}] : k \in 0..2}

(***************************************************************************)
(* Initial states.                                                         *)
(***************************************************************************)

InitRest ==
    /\ dictionary = Unset
    /\ compression = Unset
    /\ cs = Unset
    /\ commentEmb = Unset
    /\ an = Unset
    /\ angleEmb = Unset
    /\ fl = Unset
    /\ warnings = <<>>
    /\ output = Unset
    /\ script = Unset
    /\ secret = Unset

\* One input item of the node: any secret, a post with or without a body, up to two
\* comments or a crowd of them, a raw angle list and a target count.
Init ==
    /\ pc = "main"
    /\ secret \in Secrets
    /\ payload = NotAString
    /\ \E selftext \in {<<>>, <<97, 97, 97>>},
          comments \in SmallForests \cup {CrowdForest(CrowdSize)},
          angles \in RawAngles :
            post = [selftext |-> selftext, search_results |-> <<>>,
                    comments |-> comments, angles |-> angles]
    /\ nestedAngles = <<>>
    /\ TARGET_ANGLE_COUNT \in Targets
    /\ bitsIn = <<>>
    /\ dictionary = Unset
    /\ compression = Unset
    /\ cs = Unset
    /\ commentEmb = Unset
    /\ an = Unset
    /\ angleEmb = Unset
    /\ fl = Unset
    /\ warnings = <<>>
    /\ output = Unset
    /\ script = Unset

\* The source_quote of an angle: missing, "", a quote, or a value that is no string.
Quotes == {NotAString, <<>>, <<113>>, TruthyNonString}

\* One input item of the first script: a secret, the documents, a thread of at most
\* two top-level comments, at most one raw angle entry and the angles' source_quote.
InitFinder ==
    /\ pc = "main"
    /\ secret \in {[kind |-> "string", str |-> <<97, 97, 97>>, wrapped |-> FALSE],
                    [kind |-> "undefined", str |-> <<>>, wrapped |-> FALSE]}
    /\ payload = NotAString
    /\ \E docs \in DocLists,
          tp \in {<<>>, <<0>>, <<0, 0>>},
          angles \in UNION {[1..k -> RawAngleEntries] : k \in 0..1},
          quote \in Quotes :
            post = [selftext |-> <<97, 97, 97>>, search_results |-> docs,
                    comments |-> ForestOf(Len(tp), tp, "exact", FALSE),
                    angles |-> angles, quote |-> quote]
    /\ nestedAngles = <<>>
    /\ TARGET_ANGLE_COUNT = NullTarget
    /\ bitsIn = <<>>
    /\ dictionary = Unset
    /\ compression = Unset
    /\ cs = Unset
    /\ commentEmb = Unset
    /\ an = Unset
    /\ angleEmb = Unset
    /\ fl = Unset
    /\ warnings = <<>>
    /\ output = Unset
    /\ script = Unset

\* The payloads of compression.js: 'a', 'b' and the two-byte letter U+00E9.
TextSymbols == {<<97>>, <<98>>, <<233>>}

\* One input of compression.js: a payload of at most MaxTextLen code units, a post
\* body (possibly null) and at most one fetched content.
MaxTextLen == 3

InitText ==
    /\ pc = "textDictionary"
    /\ payload \in StringsUpTo(TextSymbols, MaxTextLen) \ {<<>>}
    /\ \E selftext \in {NotAString} \cup StringsUpTo(PlainSymbols, MaxTextLen + 1),
          docs \in {<<>>, <<NotAString>>, <<<<97, 98>>>>, <<<<98, 233>>>>} :
            post = [selftext |-> selftext, search_results |-> docs,
                    comments |-> NoComments]
    /\ nestedAngles = <<>>
    /\ TARGET_ANGLE_COUNT = NullTarget
    /\ bitsIn = <<>>
    /\ InitRest

\* compressPayload on payloads with multi-byte and astral characters.
InitCompress ==
    /\ pc = "buildDictionary"
    /\ payload \in StringsUpTo(PayloadSymbols, MaxPayloadLen) \ {<<>>}
    /\ \E selftext \in StringsUpTo(DocSymbols, MaxDocLen),
          docs \in {<<>>} \cup {<<t>> : t \in StringsUpTo(DocSymbols, MaxDocLen)} :
            post = [selftext |-> selftext, search_results |-> docs,
                    comments |-> NoComments]
    /\ nestedAngles = <<>>
    /\ TARGET_ANGLE_COUNT = NullTarget
    /\ bitsIn = <<>>
    /\ InitRest

\* compressPayload on payloads made of 'c' and a text of at most MaxCoverLen letters
\* 'a' and 'b', against a post body and at most one document made of 'a' and 'b':
\* 'c' can only be a literal, the rest can be referenced.
MaxCoverLen == 3

InitCover ==
    /\ pc = "buildDictionary"
    /\ payload \in {<<99>> \o t : t \in StringsUpTo(PlainSymbols, MaxCoverLen)}
    /\ \E selftext \in StringsUpTo(PlainSymbols, MaxCoverLen + 1),
          docs \in {<<>>} \cup {<<t>> : t \in {d \in StringsUpTo(PlainSymbols, MaxCoverLen) :
                                                Len(d) = MaxCoverLen}} :
            post = [selftext |-> selftext, search_results |-> docs,
                    comments |-> NoComments]
    /\ nestedAngles = <<>>
    /\ TARGET_ANGLE_COUNT = NullTarget
    /\ bitsIn = <<>>
    /\ InitRest

\* compressPayload on two-letter payloads of MaxTieLen code units against a post
\* body and at most one document of fewer code units: the carriers can repeat each
\* other, so that options of equal cost occur.
MaxTieLen == 4

InitTie ==
    /\ pc = "buildDictionary"
    /\ payload \in {t \in StringsUpTo(PlainSymbols, MaxTieLen) : Len(t) = MaxTieLen}
    /\ \E selftext \in StringsUpTo(PlainSymbols, MaxTieLen - 1),
          docs \in {<<>>} \cup {<<t>> : t \in StringsUpTo(PlainSymbols, MaxTieLen - 1)} :
            post = [selftext |-> selftext, search_results |-> docs,
                    comments |-> NoComments]
    /\ nestedAngles = <<>>
    /\ TARGET_ANGLE_COUNT = NullTarget
    /\ bitsIn = <<>>
    /\ InitRest

\* compressPayload on two-letter payloads of 2 * OptRefLen code units against a
\* post body of OptRefLen + 1 and one document of OptRefLen code units.
InitOptimal ==
    /\ pc = "buildDictionary"
    /\ payload \in {t \in StringsUpTo(PlainSymbols, 2 * OptRefLen) : Len(t) = 2 * OptRefLen}
    /\ \E selftext \in {t \in StringsUpTo(PlainSymbols, OptRefLen + 1) :
                          Len(t) = OptRefLen + 1},
          doc \in {t \in StringsUpTo(PlainSymbols, OptRefLen) : Len(t) = OptRefLen} :
            post = [selftext |-> selftext, search_results |-> <<doc>>,
                    comments |-> NoComments]
    /\ nestedAngles = <<>>
    /\ TARGET_ANGLE_COUNT = NullTarget
    /\ bitsIn = <<>>
    /\ InitRest

\* buildDictionary on carriers whose post body, documents and comment bodies may
\* be empty or not strings.
InitDictionary ==
    /\ pc = "buildDictionary"
    /\ payload = <<101, 102, 98>>
    /\ \E selftext \in {NotAString, <<>>, <<97, 97, 97>>},
          docs \in DocLists,
          comments \in BodyForests(MaxComments - 1) :
            post = [selftext |-> selftext, search_results |-> docs,
                    comments |-> comments]
    /\ nestedAngles = <<>>
    /\ TARGET_ANGLE_COUNT = NullTarget
    /\ bitsIn = <<>>
    /\ InitRest

\* embedInCommentSelection on every bitstream and forest of the bounds.
InitComment ==
    /\ pc = "commentSelect"
    /\ payload = <<>>
    /\ \E comments \in Forests :
            post = [selftext |-> <<>>, search_results |-> <<>>, comments |-> comments]
    /\ nestedAngles = <<>>
    /\ TARGET_ANGLE_COUNT = NullTarget
    /\ bitsIn \in BitStrings(MaxBits)
    /\ InitRest

\* embedInCommentSelection on comment lists with arbitrary parent ids, the bitstream
\* being the three bits of an index.
InitChain ==
    /\ pc = "commentSelect"
    /\ payload = <<>>
    /\ \E comments \in LooseForests(MaxComments - 1) :
            post = [selftext |-> <<>>, search_results |-> <<>>, comments |-> comments]
    /\ nestedAngles = <<>>
    /\ TARGET_ANGLE_COUNT = NullTarget
    /\ bitsIn \in {b \in BitStrings(MaxBits) : Len(b) = 3}
    /\ InitRest

\* flattenComments run call by call on forests and on reply structures with cycles.
InitFlatten ==
    /\ pc = "flattenComments"
    /\ payload = <<>>
    /\ \E comments \in Forests \cup TangledForests(ParentMaps) :
            post = [selftext |-> <<>>, search_results |-> <<>>, comments |-> comments]
    /\ nestedAngles = <<>>
    /\ TARGET_ANGLE_COUNT = NullTarget
    /\ bitsIn = <<>>
    /\ InitRest

\* embedInAngleSelection on every bitstream, angle family and target of the bounds.
InitAngle ==
    /\ pc = "angleSelect"
    /\ payload = <<>>
    /\ post = [selftext |-> <<>>, search_results |-> <<>>, comments |-> NoComments]
    /\ nestedAngles \in AngleFamilies
    /\ TARGET_ANGLE_COUNT \in Targets
    /\ bitsIn \in BitStrings(MaxBits)
    /\ InitRest

(***************************************************************************)
(* MAIN, lines 1378-1448: helpers of the per-item callback.                *)
(***************************************************************************)

\* Lines 1390-1391: payload = $("SetSecretData").first()?.json?.payload, replaced
\* by its own payload property when that is truthy. A secret is [kind, str, wrapped]:
\* the value is undefined, a number or the string str, and wrapped tells that it
\* sits in the payload property of an object.
unwrapPayload(s) ==
    IF s.kind = "string" /\ (~s.wrapped \/ s.str # <<>>) THEN s.str ELSE NotAString

\* The test of line 1393 rejecting only a payload that is not a string (mutant).
payloadRejectedUnlessString(p) == p = NotAString

\* Line 1393: !isNonEmptyString(payload).
payloadRejected(p) == ~isNonEmptyString(p)

\* Lines 1400-1402: (post?.angles || data?.angles || []).filter(Boolean)
\* .map((x) => (Array.isArray(x) ? x.filter(Boolean) : [x])). An entry of the raw
\* list is [kind, items]: null, one bare angle (items holds it) or an array.
RECURSIVE normaliseAngles(_)
normaliseAngles(raw) ==
    IF raw = <<>> THEN <<>>
    ELSE LET x == Head(raw)
         IN IF x.kind = "null" THEN normaliseAngles(Tail(raw))
            ELSE IF x.kind = "array"
            THEN <<FilterOut(x.items, {0})>> \o normaliseAngles(Tail(raw))
            ELSE <<x.items>> \o normaliseAngles(Tail(raw))

\* Line 1421 handing the angle selector the whole stream again (mutant).
angleSelectorBitsWhole(c) == c.bits

\* Line 1421: the first argument of embedInAngleSelection, commentEmb.remainingBits.
angleSelectorBits(c) == c.remaining

\* Lines 1426-1433 without the test of remainingBits (mutant): no truncation warning.
angleWarningsSilent(w, emb, target) ==
    IF emb.insufficientBits THEN Append(w, "Padding used in Angle Selection.") ELSE w

\* Lines 1426-1433: the warnings about the angle embedding.
angleWarnings(w, emb, target) ==
    LET padded == IF emb.insufficientBits
                  THEN Append(w, "Padding used in Angle Selection.")
                  ELSE w
    IN IF Len(emb.remainingBits) > 0
       THEN Append(padded,
                   "Data truncated: " \o ToString(Len(emb.remainingBits))
                     \o " bits could not be embedded (Limit of "
                     \o (IF target = NullTarget \/ target = 0
                         THEN "available" ELSE ToString(target))
                     \o " angles reached).")
       ELSE padded

\* Lines 1408-1412 never pushing the warning (mutant).
compressionWarningNever(w, method) == w

\* Lines 1408-1412: the warning pushed when compression.method === "standard".
compressionWarning(w, method) ==
    IF method = "standard"
    THEN Append(w, "Dictionary compression inefficient; used standard encoding.")
    ELSE w

(***************************************************************************)
(* Actions.                                                                *)
(***************************************************************************)

\* main, lines 1383-1402: warnings = [], the payload and its validation, and the
\* normalised angles. An invalid payload returns { error, warnings } at once.
Main ==
    /\ pc = "main"
    /\ payload' = unwrapPayload(secret)
    /\ IF payloadRejected(payload')
       THEN /\ output' = [error |-> "No payload", warnings |-> <<"Invalid payload">>]
            /\ pc' = "done"
            /\ UNCHANGED nestedAngles
       ELSE /\ nestedAngles' = normaliseAngles(post.angles)
            /\ pc' = "buildDictionary"
            /\ UNCHANGED output
    /\ warnings' = <<>>
    /\ UNCHANGED <<post, TARGET_ANGLE_COUNT, bitsIn, dictionary, compression, cs,
                   commentEmb, an, angleEmb, fl, secret, script>>

\* main, lines 1426-1444: the warnings about the angle embedding and the json of
\* the item.
Output ==
    /\ pc = "warnings"
    /\ warnings' = angleWarnings(warnings, angleEmb, TARGET_ANGLE_COUNT)
    /\ output' = [compression |-> compression,
                  commentEmbedding |->
                      [bitsUsed |-> commentEmb.bitsUsed,
                       bitsCount |-> commentEmb.bitsCount,
                       targetType |-> commentEmb.targetType,
                       pickedCommentChain |-> commentEmb.pickedCommentChain,
                       insufficientBits |-> commentEmb.insufficientBits],
                  angleEmbedding |-> angleEmb,
                  totalBitsEmbedded |-> commentEmb.bitsCount + angleEmb.bitsCount,
                  fullEncodedBits |-> commentEmb.bitsUsed \o angleEmb.bitsUsed,
                  warnings |-> warnings']
    /\ pc' = "done"
    /\ UNCHANGED <<payload, post, nestedAngles, TARGET_ANGLE_COUNT, bitsIn,
                   dictionary, compression, cs, commentEmb, an, angleEmb,
                   fl, secret, script>>

\* main, line 1405: const dictionary = buildDictionary(post).
BuildDictionary ==
    /\ pc = "buildDictionary"
    /\ dictionary' = buildDictionary(post)
    /\ pc' = "compress"
    /\ UNCHANGED <<payload, post, nestedAngles, TARGET_ANGLE_COUNT, bitsIn,
                   compression, cs, commentEmb, an, angleEmb,
                   fl, warnings, output, secret, script>>

\* main, lines 1406-1412: const compression = compressPayload(payload, dictionary)
\* and the warning about it; the compressed bitstream is what the comment selector is
\* handed at line 1415.
Compress ==
    /\ pc = "compress"
    /\ compression' = compressPayload(payload, dictionary)
    /\ warnings' = compressionWarning(warnings, compression'.method)
    /\ bitsIn' = compression'.compressed
    /\ pc' = "commentSelect"
    /\ UNCHANGED <<payload, post, nestedAngles, TARGET_ANGLE_COUNT, dictionary,
                   cs, commentEmb, an, angleEmb,
                   fl, output, secret, script>>

\* embedInCommentSelection(bits, post), lines 1251-1272: up to the chain walk.
CommentSelect ==
    /\ pc = "commentSelect"
    /\ LET flattenedComments == flattenComments(post.comments)
           n == Len(flattenedComments)
           bitsCount == commentBitsCount(n)
           tb == takeBits(bitsIn, bitsCount)
           parsed == ParseBits(tb.bitsUsed)
           selectionIndex == reduceIndex(parsed, n)
           walk == selectionIndex > 0 /\ n > 0
       IN /\ cs' = [bits |-> bitsIn,
                    flattenedComments |-> flattenedComments,
                    n |-> n,
                    bitsCount |-> bitsCount,
                    bitsUsed |-> tb.bitsUsed,
                    remaining |-> tb.remaining,
                    insufficient |-> tb.insufficient,
                    parsed |-> parsed,
                    selectionIndex |-> selectionIndex,
                    current |-> IF walk THEN flattenedComments[selectionIndex] ELSE 0,
                    visitedIds |-> {},
                    pickedCommentChain |-> <<>>]
          /\ pc' = IF walk THEN "chainWalk" ELSE "commentReturn"
    /\ UNCHANGED <<payload, post, nestedAngles, TARGET_ANGLE_COUNT, bitsIn,
                   dictionary, compression, commentEmb, an, angleEmb,
                   fl, warnings, output, secret, script>>

\* One iteration of while (current), lines 1274-1297.
ChainStep ==
    /\ pc = "chainWalk"
    /\ LET nodes == post.comments.nodes
           current == nodes[cs.current]
       IN IF visitedHas(cs.visitedIds, current.id)
          THEN /\ pc' = "commentReturn"
               /\ cs' = cs
          ELSE LET chain == chainUnshift(cs.pickedCommentChain, current)
                   visited == cs.visitedIds \cup {current.id}
                   parent == lookupParent(nodes, cs.flattenedComments, current.parent_id)
               IN IF current.parent_id = current.link_id
                  THEN /\ pc' = "commentReturn"
                       /\ cs' = [cs EXCEPT !.visitedIds = visited,
                                           !.pickedCommentChain = chain]
                  ELSE IF parent = 0 \/ parent = cs.current
                  THEN /\ pc' = "commentReturn"
                       /\ cs' = [cs EXCEPT !.visitedIds = visited,
                                           !.pickedCommentChain = chain]
                  ELSE /\ pc' = "chainWalk"
                       /\ cs' = [cs EXCEPT !.visitedIds = visited,
                                           !.pickedCommentChain = chain,
                                           !.current = parent]
    /\ UNCHANGED <<payload, post, nestedAngles, TARGET_ANGLE_COUNT, bitsIn,
                   dictionary, compression, commentEmb, an, angleEmb,
                   fl, warnings, output, secret, script>>

\* The return of embedInCommentSelection, lines 1300-1315, and main's warning about
\* it, lines 1416-1417; the leftover bits are what the angle selector is handed at
\* line 1421.
CommentReturn ==
    /\ pc = "commentReturn"
    /\ commentEmb' = [bitsUsed |-> cs.bitsUsed,
                      bitsCount |-> cs.bitsCount,
                      targetType |-> IF cs.selectionIndex = 0 THEN "post" ELSE "comment",
                      pickedCommentChain |-> cs.pickedCommentChain,
                      insufficientBits |-> cs.insufficient,
                      remainingBits |-> cs.remaining]
    /\ warnings' = IF cs.insufficient
                   THEN Append(warnings, "Padding used in Comment Selection.")
                   ELSE warnings
    /\ bitsIn' = angleSelectorBits(cs)
    /\ pc' = "angleSelect"
    /\ UNCHANGED <<payload, post, nestedAngles, TARGET_ANGLE_COUNT, dictionary,
                   compression, cs, an, angleEmb,
                   fl, output, secret, script>>

\* embedInAngleSelection(bits, nestedAngles, targetCount), lines 1331-1336.
AngleSelect ==
    /\ pc = "angleSelect"
    /\ an' = [bits |-> bitsIn,
              availableAngles |-> FilterOut(Flat(nestedAngles), {0}),
              selectedAngles |-> <<>>,
              currentBits |-> bitsIn,
              totalBitsUsedStr |-> <<>>,
              totalBitsCount |-> 0,
              anyInsufficient |-> FALSE,
              targetCount |-> TARGET_ANGLE_COUNT,
              lastBitsNeeded |-> 0,
              lastIdx |-> 0]
    /\ pc' = "angleLoop"
    /\ UNCHANGED <<payload, post, nestedAngles, TARGET_ANGLE_COUNT, bitsIn,
                   dictionary, compression, cs, commentEmb, angleEmb,
                   fl, warnings, output, secret, script>>

\* The loop condition of line 1340.
angleLoopCondition ==
    belowTarget(Len(an.selectedAngles), an.targetCount) /\ Len(an.availableAngles) > 0

\* One iteration of the while loop, lines 1340-1362.
AngleStep ==
    /\ pc = "angleLoop"
    /\ angleLoopCondition
    /\ LET range == Len(an.availableAngles)
           bitsNeeded == angleBitsNeeded(range)
           tb == takeBits(an.currentBits, bitsNeeded)
           idx == reduceAngleIndex(ParseBits(tb.bitsUsed), range)
       IN an' = [an EXCEPT
                    !.anyInsufficient = an.anyInsufficient \/ tb.insufficient,
                    !.selectedAngles = Append(an.selectedAngles,
                                              At(an.availableAngles, idx)),
                    !.availableAngles = RemoveAt(an.availableAngles, idx),
                    !.currentBits = tb.remaining,
                    !.totalBitsUsedStr = an.totalBitsUsedStr \o tb.bitsUsed,
                    !.totalBitsCount = an.totalBitsCount + bitsNeeded,
                    !.lastBitsNeeded = bitsNeeded,
                    !.lastIdx = idx]
    /\ pc' = "angleLoop"
    /\ UNCHANGED <<payload, post, nestedAngles, TARGET_ANGLE_COUNT, bitsIn,
                   dictionary, compression, cs, commentEmb, angleEmb,
                   fl, warnings, output, secret, script>>

\* The return of embedInAngleSelection, lines 1364-1371.
AngleReturn ==
    /\ pc = "angleLoop"
    /\ ~angleLoopCondition
    /\ angleEmb' = [bitsUsed |-> an.totalBitsUsedStr,
                    bitsCount |-> an.totalBitsCount,
                    remainingBits |-> an.currentBits,
                    selectedAngles |-> an.selectedAngles,
                    unselectedAngles |-> an.availableAngles,
                    insufficientBits |-> an.anyInsufficient]
    /\ pc' = "warnings"
    /\ UNCHANGED <<payload, post, nestedAngles, TARGET_ANGLE_COUNT, bitsIn,
                   dictionary, compression, cs, commentEmb, an,
                   fl, warnings, output, secret, script>>

(***************************************************************************)
(* flattenComments, lines 999-1014, call by call. fl.stack holds the calls *)
(* of flatten that are inside their flatMap (the comment and the index of  *)
(* its next reply), fl.out the comments in the order in which the          *)
(* returned arrays will hold them, fl.root the index of the next root. A   *)
(* call needs a frame of the engine's call stack, which holds at most      *)
(* MaxCallStack frames of flatten; one call more throws a RangeError.      *)
(***************************************************************************)

\* The call-stack depth the engine grants flatten: more than any forest of the
\* bounds needs.
MaxCallStack == MaxComments + 2

\* flattenComments(comments) is entered, lines 1011-1012.
FlattenStart ==
    /\ pc = "flattenComments"
    /\ fl' = [stack |-> <<>>, out |-> <<>>, root |-> 1, result |-> <<>>]
    /\ pc' = "flatten"
    /\ UNCHANGED <<payload, post, nestedAngles, TARGET_ANGLE_COUNT, bitsIn,
                   dictionary, compression, cs, commentEmb, an, angleEmb,
                   warnings, output, secret, script>>

\* The comment the next call of flatten is made on, and the caller's state after
\* the call was made: the next root, or the next reply of the innermost call.
flattenCallee ==
    IF fl.stack = <<>>
    THEN [c |-> post.comments.roots[fl.root],
          stack |-> <<>>,
          root |-> fl.root + 1]
    ELSE LET top == fl.stack[Len(fl.stack)]
         IN [c |-> post.comments.nodes[top.c].replies[top.i],
             stack |-> [fl.stack EXCEPT ![Len(fl.stack)].i = top.i + 1],
             root |-> fl.root]

\* A further call of flatten is due: a root or a reply is left to map.
flattenCallDue ==
    IF fl.stack = <<>>
    THEN fl.root <= Len(post.comments.roots)
    ELSE LET top == fl.stack[Len(fl.stack)]
         IN top.i <= Len(post.comments.nodes[top.c].replies)

\* One call flatten(c), lines 1000-1010: a null returns [], a comment without
\* replies returns [c], any other comment starts [c, ...c.replies.flatMap(flatten)].
FlattenCall ==
    /\ pc = "flatten"
    /\ flattenCallDue
    /\ Len(fl.stack) < MaxCallStack
    /\ LET call == flattenCallee
           c == call.c
       IN fl' = IF c = 0
                THEN [fl EXCEPT !.stack = call.stack, !.root = call.root]
                ELSE IF post.comments.nodes[c].replies = <<>>
                THEN [fl EXCEPT !.stack = call.stack, !.root = call.root,
                                !.out = Append(fl.out, c)]
                ELSE [fl EXCEPT !.stack = Append(call.stack, [c |-> c, i |-> 1]),
                                !.root = call.root,
                                !.out = Append(fl.out, c)]
    /\ pc' = "flatten"
    /\ UNCHANGED <<payload, post, nestedAngles, TARGET_ANGLE_COUNT, bitsIn,
                   dictionary, compression, cs, commentEmb, an, angleEmb,
                   warnings, output, secret, script>>

\* A call of flatten with the call stack exhausted: RangeError (Maximum call stack
\* size exceeded), which nothing catches.
FlattenOverflow ==
    /\ pc = "flatten"
    /\ flattenCallDue
    /\ Len(fl.stack) >= MaxCallStack
    /\ pc' = "RangeError"
    /\ UNCHANGED <<payload, post, nestedAngles, TARGET_ANGLE_COUNT, bitsIn,
                   dictionary, compression, cs, commentEmb, an, angleEmb,
                   fl, warnings, output, secret, script>>

\* The flatMap of the innermost call is through: flatten returns, line 1009.
FlattenPop ==
    /\ pc = "flatten"
    /\ fl.stack # <<>>
    /\ ~flattenCallDue
    /\ fl' = [fl EXCEPT !.stack = SubSeq(fl.stack, 1, Len(fl.stack) - 1)]
    /\ pc' = "flatten"
    /\ UNCHANGED <<payload, post, nestedAngles, TARGET_ANGLE_COUNT, bitsIn,
                   dictionary, compression, cs, commentEmb, an, angleEmb,
                   warnings, output, secret, script>>

\* comments.flatMap(flatten) is through: filter(Boolean) and return, line 1012.
FlattenReturn ==
    /\ pc = "flatten"
    /\ fl.stack = <<>>
    /\ ~flattenCallDue
    /\ fl' = [fl EXCEPT !.result = FilterOut(fl.out, {0})]
    /\ pc' = "flattenReturn"
    /\ UNCHANGED <<payload, post, nestedAngles, TARGET_ANGLE_COUNT, bitsIn,
                   dictionary, compression, cs, commentEmb, an, angleEmb,
                   warnings, output, secret, script>>

(***************************************************************************)
(* The mode-aware decoder of the bitstream format (spec 4.1, 4.5): the     *)
(* first bit routes; mode 0 is the UTF-8 bits of the payload; mode 1 is a  *)
(* token stream read by 1-bit tag with the fixed field widths. A literal's *)
(* length counts UTF-16 code units, as the encoder writes it. With         *)
(* acceptSurrogates = FALSE the text is read as UTF-8 (a 3-byte sequence   *)
(* for a surrogate code point is malformed); with TRUE such sequences are  *)
(* accepted as lone code units.                                            *)
(***************************************************************************)

Malformed == [ok |-> FALSE, text |-> <<>>, rest |-> <<>>]

ByteAt(bits, k) == ParseBits(SubSeq(bits, 8 * k + 1, 8 * k + 8))

IsContinuation(b) == b >= 128 /\ b <= 191

\* One UTF-8 sequence from the head of bits, as UTF-16 code units.
DecodeCodePoint(bits, acceptSurrogates) ==
    IF Len(bits) < 8 THEN Malformed
    ELSE LET b0 == ByteAt(bits, 0)
             need == IF b0 < 128 THEN 1
                     ELSE IF b0 >= 192 /\ b0 <= 223 THEN 2
                     ELSE IF b0 >= 224 /\ b0 <= 239 THEN 3
                     ELSE IF b0 >= 240 /\ b0 <= 247 THEN 4
                     ELSE 0
         IN IF need = 0 \/ Len(bits) < 8 * need THEN Malformed
            ELSE IF \E k \in 1..(need - 1) : ~IsContinuation(ByteAt(bits, k))
            THEN Malformed
            ELSE LET cp == IF need = 1 THEN b0
                           ELSE IF need = 2
                           THEN (b0 - 192) * 64 + (ByteAt(bits, 1) - 128)
                           ELSE IF need = 3
                           THEN (b0 - 224) * 4096 + (ByteAt(bits, 1) - 128) * 64
                                + (ByteAt(bits, 2) - 128)
                           ELSE (b0 - 240) * 262144 + (ByteAt(bits, 1) - 128) * 4096
                                + (ByteAt(bits, 2) - 128) * 64 + (ByteAt(bits, 3) - 128)
                     rest == SubSeq(bits, 8 * need + 1, Len(bits))
                 IN IF cp >= 55296 /\ cp <= 57343 /\ ~acceptSurrogates THEN Malformed
                    ELSE IF cp > 65535
                    THEN [ok |-> TRUE,
                          text |-> <<55296 + ((cp - 65536) \div 1024),
                                     56320 + ((cp - 65536) % 1024)>>,
                          rest |-> rest]
                    ELSE [ok |-> TRUE, text |-> <<cp>>, rest |-> rest]

\* UTF-8 text of exactly units code units (units < 0: up to the end of bits).
RECURSIVE DecodeText(_, _, _, _)
DecodeText(bits, units, acceptSurrogates, out) ==
    IF units = 0 \/ (units < 0 /\ bits = <<>>)
    THEN [ok |-> TRUE, text |-> out, rest |-> bits]
    ELSE LET c == DecodeCodePoint(bits, acceptSurrogates)
         IN IF ~c.ok \/ (units > 0 /\ Len(c.text) > units) THEN Malformed
            ELSE DecodeText(c.rest, IF units < 0 THEN units ELSE units - Len(c.text),
                            acceptSurrogates, out \o c.text)

\* The token stream of mode 1.
RECURSIVE DecodeTokens(_, _, _, _)
DecodeTokens(bits, D, acceptSurrogates, out) ==
    IF bits = <<>> THEN [ok |-> TRUE, text |-> out, rest |-> <<>>]
    ELSE IF Head(bits) = 0
    THEN LET wl == getBitWidth(MAX_LITERAL_LEN)
         IN IF Len(bits) < 1 + wl THEN Malformed
            ELSE LET L == ParseBits(SubSeq(bits, 2, 1 + wl))
                     t == DecodeText(SubSeq(bits, 2 + wl, Len(bits)), L,
                                     acceptSurrogates, <<>>)
                 IN IF L = 0 \/ ~t.ok THEN Malformed
                    ELSE DecodeTokens(t.rest, D, acceptSurrogates, out \o t.text)
    ELSE LET wd == getBitWidth(Len(D))
             gmm == GlobalMaxMatch(D)
             wm == getBitWidth(gmm)
         IN IF Len(bits) < 1 + wd THEN Malformed
            ELSE LET d == ParseBits(SubSeq(bits, 2, 1 + wd))
                 IN IF d >= Len(D) THEN Malformed
                    ELSE LET wo == getBitWidth(Len(At(D, d)))
                         IN IF Len(bits) < 1 + wd + wo + wm THEN Malformed
                            ELSE LET o == ParseBits(SubSeq(bits, 2 + wd, 1 + wd + wo))
                                     L == ParseBits(SubSeq(bits, 2 + wd + wo,
                                                           1 + wd + wo + wm))
                                 IN IF L = 0 \/ o + L > Len(At(D, d)) THEN Malformed
                                    ELSE DecodeTokens(
                                            SubSeq(bits, 2 + wd + wo + wm, Len(bits)),
                                            D, acceptSurrogates,
                                            out \o Substr(At(D, d), o, L))

\* The decoder: the first bit routes.
DecodeStream(bits, D, acceptSurrogates) ==
    IF bits = <<>> THEN Malformed
    ELSE IF Head(bits) = 0
    THEN DecodeText(Tail(bits), -1, acceptSurrogates, <<>>)
    ELSE DecodeTokens(Tail(bits), D, acceptSurrogates, <<>>)

(***************************************************************************)
(* The cost model of spec 4.5 over ALL token sequences: any literal of     *)
(* 1..MAX_LITERAL_LEN code units, any reference (d, o, L) with L > 2,      *)
(* L <= M_global and D[d][o..o+L) equal to the payload segment.            *)
(***************************************************************************)

MinOf(S) == CHOOSE x \in S : \A y \in S : x <= y

LiteralWidth(text) == 1 + getBitWidth(MAX_LITERAL_LEN) + 8 * getUtf8ByteLength(text)

ReferenceWidth(D, d) ==
    1 + getBitWidth(Len(D)) + getBitWidth(Len(At(D, d))) + getBitWidth(GlobalMaxMatch(D))

AllReferencesAt(text, D, i) ==
    {r \in UNION {{[doc |-> d, idx |-> o, len |-> L] :
                     o \in 0..(Len(At(D, d)) - 1),
                     L \in 3..Min2(Len(text) - i, GlobalMaxMatch(D))} :
                  d \in 0..(Len(D) - 1)} :
        /\ r.idx + r.len <= Len(At(D, r.doc))
        /\ Substr(At(D, r.doc), r.idx, r.len) = Substr(text, i, r.len)}

RECURSIVE OptimalFrom(_, _, _, _)
OptimalFrom(text, D, i, tab) ==
    IF i < 0 THEN tab
    ELSE LET n == Len(text)
             lits == {LiteralWidth(Substr(text, i, L)) + tab[i + L] :
                        L \in 1..Min2(MAX_LITERAL_LEN, n - i)}
             refs == {ReferenceWidth(D, r.doc) + tab[i + r.len] :
                        r \in AllReferencesAt(text, D, i)}
         IN OptimalFrom(text, D, i - 1, [tab EXCEPT ![i] = MinOf(lits \cup refs)])

\* The minimum total bit cost of a token sequence covering text.
OptimalCost(text, D) ==
    OptimalFrom(text, D, Len(text) - 1, [k \in 0..Len(text) |-> 0])[0]

\* The declared width of an emitted token.
DeclaredWidth(tok) ==
    IF tok.kind = "literal"
    THEN LiteralWidth(Substr(payload, tok.at, tok.len))
    ELSE ReferenceWidth(dictionary, tok.doc)

RECURSIVE SumWidths(_)
SumWidths(toks) ==
    IF toks = <<>> THEN 0 ELSE DeclaredWidth(Head(toks)) + SumWidths(Tail(toks))

Compressed == compression # Unset

(***************************************************************************)
(* The first script of the file, lines 1-912: the encoder that selects one *)
(* angle and asks the needle-finder service for the document the angle's   *)
(* source_quote comes from. Its helpers, buildDictionary, compressPayload  *)
(* and embedInCommentSelection (lines 26-576) are the functions of the     *)
(* second script without the stripped-id parent lookup, which a thread of  *)
(* top-level comments never reaches, and its main is the same up to the    *)
(* comment embedding (lines 752-798). post.quote is the source_quote every *)
(* angle of the item carries; null is NotAString.                          *)
(***************************************************************************)

NEEDLE_FINDER_API == "http://localhost:5000/needle_finder"

\* score: null in a result of findNeedleInHaystack.
NullScore == -99

\* error: null, errorType: null.
Null == "null"

\* Number.prototype.toFixed(4) of the scores -1, 0 and 1.
toFixed4(score) == ToString(score) \o ".0000"

\* main, lines 808-828: search_results as an array without null, undefined and "".
documentsOf(search_results) == FilterOut(search_results, {NotAString, <<>>})

\* Line 614: const sourceQuote = selectedAngle.source_quote || "".
sourceQuoteOf(quote) == IF quote = NotAString THEN <<>> ELSE quote

\* findNeedleInHaystack, lines 61-90: the result returned before any request, or
\* Unset when the request is made.
finderInputCheck(needle, haystack) ==
    IF ~isNonEmptyString(needle) \/ Len(haystack) = 0
    THEN [snippet |-> NotAString,
          error |-> "Invalid input: needle must be a non-empty string and haystack must be a non-empty array",
          score |-> NullScore,
          errorType |-> "invalid_input"]
    ELSE IF FilterNonEmptyStrings(haystack) = <<>>
    THEN [snippet |-> NotAString,
          error |-> "No valid documents in haystack - all items are empty or invalid",
          score |-> NullScore,
          errorType |-> "invalid_input"]
    ELSE Unset

\* What the request of lines 103-135 can come to: fetch or response.json() throws,
\* the response is not ok (its text readable or not), the body has no numeric score,
\* or it has a score and possibly a best_match.
FetchOutcomes(haystack) ==
    {[kind |-> k, score |-> NullScore, best_match |-> NotAString] :
        k \in {"throws", "notOk", "notOkUnreadable", "noScore"}}
    \cup {[kind |-> "score", score |-> sc, best_match |-> b] :
             sc \in {-1, 0, 1},
             b \in {NotAString, <<120>>} \cup {haystack[i] : i \in DOMAIN haystack}}

\* findNeedleInHaystack, lines 114-197: the result for an outcome of the request.
finderResult(o, minScore) ==
    IF o.kind = "throws"
    THEN [snippet |-> NotAString, error |-> "Failed to call API: fetch failed",
          score |-> NullScore, errorType |-> "network_error"]
    ELSE IF o.kind = "notOk"
    THEN [snippet |-> NotAString, error |-> "API returned HTTP 500: down",
          score |-> NullScore, errorType |-> "api_error"]
    ELSE IF o.kind = "notOkUnreadable"
    THEN [snippet |-> NotAString,
          error |-> "API returned HTTP 500: Failed to read error response: aborted",
          score |-> NullScore, errorType |-> "api_error"]
    ELSE IF o.kind = "noScore"
    THEN [snippet |-> NotAString,
          error |-> "Invalid API response format - missing score or best_match",
          score |-> NullScore, errorType |-> "api_error"]
    ELSE IF o.score < minScore
    THEN [snippet |-> o.best_match,
          error |-> "Low similarity score: " \o toFixed4(o.score) \o " (threshold: 0)",
          score |-> o.score, errorType |-> "low_score"]
    ELSE [snippet |-> o.best_match, error |-> Null, score |-> o.score, errorType |-> Null]

\* Lines 693-701: the index of the first document equal to the snippet, or -1.
sourceDocIndex(documents, snippet) ==
    LET hits == {d \in DOMAIN documents : documents[d] = snippet}
    IN IF snippet = NotAString \/ snippet = <<>> \/ hits = {} THEN -1
       ELSE (CHOOSE d \in hits : \A e \in hits : d <= e) - 1

\* Lines 649-659: on invalid_input the log evaluates sourceQuote.substring(0, 100),
\* which is not a function unless sourceQuote is a string.
quoteLogThrows(errorType, sourceQuote) ==
    errorType = "invalid_input" /\ sourceQuote = TruthyNonString

\* main, lines 846-889: the warning about the search for the source document.
finderWarnings(w, emb) ==
    LET searchError == IF "searchError" \in DOMAIN emb THEN emb.searchError ELSE Null
        errorType == IF "searchErrorType" \in DOMAIN emb THEN emb.searchErrorType ELSE Null
        score == IF "searchScore" \in DOMAIN emb /\ emb.searchScore # NullScore
                 THEN toFixed4(emb.searchScore) ELSE "unknown"
        found == "selectedSourceDocument" \in DOMAIN emb
                   /\ emb.selectedSourceDocument # NotAString
    IN IF ~found
       THEN IF errorType = "invalid_input"
            THEN Append(w, "Angle Selection: Failed to find source document - "
                             \o (IF searchError = Null THEN "Invalid input" ELSE searchError))
            ELSE IF errorType = "api_error"
            THEN Append(w, "Angle Selection: API error while searching for source document - "
                             \o (IF searchError = Null THEN "Unknown API error" ELSE searchError))
            ELSE IF errorType = "network_error"
            THEN Append(w, "Angle Selection: Network error while searching for source document - "
                             \o (IF searchError = Null THEN "Unknown network error" ELSE searchError)
                             \o ". API endpoint: " \o NEEDLE_FINDER_API)
            ELSE IF errorType = "low_score"
            THEN Append(w, "Angle Selection: Found source document but with low similarity score ("
                             \o score \o ") - "
                             \o (IF searchError = Null THEN "Score below threshold" ELSE searchError))
            ELSE IF searchError # Null
            THEN Append(w, "Angle Selection: Failed to find source document - " \o searchError)
            ELSE Append(w, "Angle Selection: No source document found (unknown reason)")
       ELSE IF errorType = "low_score"
       THEN Append(w, "Angle Selection: Source document found but with low similarity score ("
                        \o score \o ") - "
                        \o (IF searchError = Null THEN "Score below threshold" ELSE searchError))
       ELSE w

\* main, lines 808-832, and embedInAngleSelection(bits, nestedAngles, documents),
\* lines 578-621: up to the call of findNeedleInHaystack.
SelectOneAngle ==
    /\ pc = "angleSelect"
    /\ LET documents == documentsOf(post.search_results)
           angles == FilterOut(Flat(nestedAngles), {0})
       IN IF angles = <<>>
          THEN /\ angleEmb' = [bitsUsed |-> <<>>,
                               remainingBits |-> bitsIn,
                               selectedAngle |-> 0,
                               snippet |-> NotAString,
                               insufficientBits |-> FALSE]
               /\ an' = [documents |-> documents, outcome |-> "none"]
               /\ pc' = "finderWarnings"
          ELSE LET bitsCount == getBitWidth(Len(angles) - 1)
                   tb == takeBits(bitsIn, bitsCount)
                   parsed == ParseBits(tb.bitsUsed)
                   idx == IF parsed >= Len(angles) THEN parsed % Len(angles) ELSE parsed
               IN /\ an' = [documents |-> documents,
                            bitsCount |-> bitsCount,
                            bitsUsed |-> tb.bitsUsed,
                            remaining |-> tb.remaining,
                            insufficient |-> tb.insufficient,
                            selectedAngle |-> At(angles, idx),
                            remainingAngles |-> RemoveAt(angles, idx),
                            sourceQuote |-> sourceQuoteOf(post.quote),
                            searchResult |-> Unset,
                            outcome |-> "none"]
                  /\ UNCHANGED angleEmb
                  /\ pc' = "findNeedleInHaystack"
    /\ UNCHANGED <<payload, post, nestedAngles, TARGET_ANGLE_COUNT, bitsIn,
                   dictionary, compression, cs, commentEmb,
                   fl, warnings, output, secret, script>>

\* findNeedleInHaystack(needle, haystack, 0.0), lines 58-90: the checks of the input.
FinderCheck ==
    /\ pc = "findNeedleInHaystack"
    /\ LET r == finderInputCheck(an.sourceQuote, an.documents)
       IN IF r # Unset
          THEN /\ an' = [an EXCEPT !.searchResult = r, !.outcome = "invalid_input"]
               /\ pc' = "searchResult"
          ELSE /\ an' = an
               /\ pc' = "fetch"
    /\ UNCHANGED <<payload, post, nestedAngles, TARGET_ANGLE_COUNT, bitsIn,
                   dictionary, compression, cs, commentEmb, angleEmb,
                   fl, warnings, output, secret, script>>

\* findNeedleInHaystack, lines 92-199: the request and whatever comes of it.
FinderFetch ==
    /\ pc = "fetch"
    /\ \E o \in FetchOutcomes(an.documents) :
          an' = [an EXCEPT !.searchResult = finderResult(o, 0), !.outcome = o.kind]
    /\ pc' = "searchResult"
    /\ UNCHANGED <<payload, post, nestedAngles, TARGET_ANGLE_COUNT, bitsIn,
                   dictionary, compression, cs, commentEmb, angleEmb,
                   fl, warnings, output, secret, script>>

\* embedInAngleSelection, lines 627-718: the log of the search result and the
\* returned object; a log that throws rejects the promise of main's callback.
SearchResult ==
    /\ pc = "searchResult"
    /\ LET r == an.searchResult
           falsy == r.snippet = NotAString \/ r.snippet = <<>>
       IN IF falsy /\ quoteLogThrows(r.errorType, an.sourceQuote)
          THEN /\ pc' = "TypeError"
               /\ UNCHANGED angleEmb
          ELSE /\ angleEmb' =
                      [bitsUsed |-> an.bitsUsed,
                       bitsCount |-> an.bitsCount,
                       remainingBits |-> an.remaining,
                       selectedAngle |-> an.selectedAngle,
                       remainingAngles |-> an.remainingAngles,
                       totalAnglesSelectedFirst |-> <<an.selectedAngle>> \o an.remainingAngles,
                       snippet |-> r.snippet,
                       selectedSourceDocumentIndex |-> sourceDocIndex(an.documents, r.snippet),
                       selectedSourceDocument |-> IF falsy THEN NotAString ELSE r.snippet,
                       insufficientBits |-> an.insufficient,
                       searchError |-> r.error,
                       searchScore |-> IF r.score = 0 THEN NullScore ELSE r.score,
                       searchErrorType |-> r.errorType]
               /\ pc' = "finderWarnings"
    /\ UNCHANGED <<payload, post, nestedAngles, TARGET_ANGLE_COUNT, bitsIn,
                   dictionary, compression, cs, commentEmb, an,
                   fl, warnings, output, secret, script>>

\* main, lines 843-900: the warnings about the angle embedding and the json of the
\* item; without angles angleEmb has no bitsCount and the sum of line 897 is NaN.
FinderOutput ==
    /\ pc = "finderWarnings"
    /\ warnings' = finderWarnings(IF angleEmb.insufficientBits
                                  THEN Append(warnings, "Padding used in Angle Selection.")
                                  ELSE warnings,
                                  angleEmb)
    /\ output' = [compression |-> compression,
                  commentEmbedding |->
                      [bitsUsed |-> commentEmb.bitsUsed,
                       bitsCount |-> commentEmb.bitsCount,
                       targetType |-> commentEmb.targetType,
                       pickedCommentChain |-> commentEmb.pickedCommentChain,
                       insufficientBits |-> commentEmb.insufficientBits],
                  angleEmbedding |-> angleEmb,
                  totalBitsEmbedded |-> IF "bitsCount" \in DOMAIN angleEmb
                                        THEN ToString(commentEmb.bitsCount + angleEmb.bitsCount)
                                        ELSE "NaN",
                  fullEncodedBits |-> commentEmb.bitsUsed \o angleEmb.bitsUsed,
                  warnings |-> warnings']
    /\ pc' = "done"
    /\ UNCHANGED <<payload, post, nestedAngles, TARGET_ANGLE_COUNT, bitsIn,
                   dictionary, compression, cs, commentEmb, an, angleEmb,
                   fl, secret, script>>

(***************************************************************************)
(* src/functions/compression.js: the TextCompressor, which compresses the  *)
(* payload against the dictionary, decompresses the result and reports     *)
(* whether the payload came back (validationPassed).                       *)
(***************************************************************************)

\* Math.floor(Math.log2(x)) for an integer x >= 1.
RECURSIVE FloorLog2(_)
FloorLog2(x) == IF x < 2 THEN 0 ELSE 1 + FloorLog2(x \div 2)

\* TextCompressor.intEncodedLen(n, max), lines 61-68.
intEncodedLen(n, max) ==
    IF max <= 1 THEN 1
    ELSE Max2(FloorLog2(IF n = 0 THEN 1 ELSE n) + 1, FloorLog2(max))

\* TextCompressor.encodeIntGreedy(n, max), lines 70-74.
encodeIntGreedy(n, max) ==
    IF max <= 1 THEN <<0>> ELSE PadStart(ToBinary(n), FloorLog2(max))

\* Lines 4-20 and the constructor, lines 27-31: the dictionary holds the post body
\* ("" when it is null) and the fetched contents that are strings; the flattened
\* comments are objects and never pass the filter.
textDictionary(datapoint) ==
    FilterOut(<<IF datapoint.selftext = NotAString THEN <<>> ELSE datapoint.selftext>>
                \o datapoint.search_results,
              {NotAString, TruthyNonString})

\* The while loop of lines 181-192: the length of the match of the payload from i
\* with dictText from k.
RECURSIVE matchLenFrom(_, _, _, _, _, _)
matchLenFrom(text, i, dictText, k, maxMatchLen, matchLen) ==
    IF matchLen < Min2(maxMatchLen, Min2(Len(text) - i, Len(dictText) - k))
       /\ At(text, i + matchLen) = At(dictText, k + matchLen)
    THEN matchLenFrom(text, i, dictText, k, maxMatchLen, matchLen + 1)
    ELSE matchLen

\* findAllMatches(payload).get(i) || [], lines 169-211: for every entry j and offset
\* k, the matches of every length from 1 to the longest.
findAllMatches(text, D, i) ==
    Flat([j \in 1..Len(D) |->
            Flat([k \in 1..Len(D[j]) |->
                    [L \in 1..matchLenFrom(text, i, D[j], k - 1, GlobalMaxMatch(D), 0) |->
                        [kind |-> "dict", doc |-> j - 1, idx |-> k - 1, len |-> L]]])])

\* The options of lines 91-121 at position i in the order the loops try them, each
\* with its cost.
textOptions(text, D, dp, i) ==
    LET maxMatchLen == GlobalMaxMatch(D)
        matches == findAllMatches(text, D, i)
    IN [L \in 1..Min2(MAX_LITERAL_LEN, Len(text) - i) |->
          [choice |-> [kind |-> "literal", doc |-> NullDoc, idx |-> i, len |-> L],
           cost |-> AddCost(1 + intEncodedLen(L, maxMatchLen)
                              + Len(toBinaryUtf8(SubSeq(text, i + 1, i + L))),
                            dp[i + L])]]
       \o [m \in 1..Len(matches) |->
             [choice |-> matches[m],
              cost |-> AddCost(1 + intEncodedLen(matches[m].doc, Len(D))
                                 + intEncodedLen(matches[m].idx, Len(At(D, matches[m].doc)))
                                 + intEncodedLen(matches[m].len, maxMatchLen),
                               dp[i + matches[m].len])]]

\* if (cost < dp[i]) choice[i] = ..., dp[i] = cost over the options from k on.
RECURSIVE textBest(_, _, _)
textBest(opts, k, best) ==
    IF k > Len(opts) THEN best
    ELSE textBest(opts, k + 1,
                  IF CostLess(opts[k].cost, best.cost) THEN opts[k] ELSE best)

\* The loop of lines 89-122 from position i down to 0.
RECURSIVE textDP(_, _, _, _)
textDP(text, D, i, tab) ==
    IF i < 0 THEN tab
    ELSE LET best == textBest(textOptions(text, D, tab.dp, i), 1,
                              [choice |-> NoChoice, cost |-> Infinity])
         IN textDP(text, D, i - 1,
                   [dp |-> [tab.dp EXCEPT ![i] = best.cost],
                    choice |-> [tab.choice EXCEPT ![i] = best.choice]])

\* The reconstruction of lines 124-150 from position i: the tokens with their bits.
RECURSIVE textEmit(_, _, _, _)
textEmit(text, D, choice, i) ==
    IF i >= Len(text) THEN <<>>
    ELSE LET ch == IF choice[i].kind = "none"
                   THEN [kind |-> "literal", doc |-> NullDoc, idx |-> i, len |-> 1]
                   ELSE choice[i]
             bits == IF ch.kind = "literal"
                     THEN <<0>> \o encodeIntGreedy(ch.len, GlobalMaxMatch(D))
                               \o toBinaryUtf8(SubSeq(text, i + 1, i + ch.len))
                     ELSE <<1>> \o encodeIntGreedy(ch.doc, Len(D))
                               \o encodeIntGreedy(ch.idx, Len(At(D, ch.doc)))
                               \o encodeIntGreedy(ch.len, GlobalMaxMatch(D))
         IN <<[kind |-> ch.kind, doc |-> ch.doc, idx |-> ch.idx, len |-> ch.len,
               at |-> i, bits |-> bits]>>
            \o textEmit(text, D, choice, i + ch.len)

\* TextCompressor.compress(payload), lines 79-166; tokens exposes the bits of each
\* reference.
compress(text, D) ==
    LET n == Len(text)
        tab == textDP(text, D, n - 1,
                      [dp |-> [k \in 0..n |-> IF k = n THEN 0 ELSE Infinity],
                       choice |-> [k \in 0..(n - 1) |-> NoChoice]])
        toks == textEmit(text, D, tab.choice, 0)
        usedDict == \E k \in DOMAIN toks : toks[k].kind = "dict"
    IN [compressed |-> IF usedDict THEN <<1>> \o JoinBits(toks)
                       ELSE <<0>> \o toBinaryUtf8(text),
        usedDict |-> usedDict,
        references |-> References(toks),
        tokens |-> toks]

\* The loops of lines 223-224 and 237-240: one String.fromCharCode per group of
\* eight bits (the last group may be shorter).
RECURSIVE charsOfBits(_)
charsOfBits(bits) ==
    IF bits = <<>> THEN <<>>
    ELSE <<ParseBits(SubSeq(bits, 1, Min2(8, Len(bits))))>>
         \o charsOfBits(SubSeq(bits, 9, Len(bits)))

\* The while loop of lines 228-261 from position i with the result so far. A slice
\* beyond the end is "" and its parseInt NaN: a literal length of NaN makes i NaN
\* and ends the loop, a document index that is NaN or beyond the dictionary makes
\* this.dictionary[docIdx].length throw a TypeError, and slice(idx, idx + L) with a
\* NaN is "".
RECURSIVE decompressFrom(_, _, _, _)
decompressFrom(c, D, i, result) ==
    IF i >= Len(c) THEN [threw |-> FALSE, text |-> result]
    ELSE LET lenBits == intEncodedLen(1, GlobalMaxMatch(D))
         IN IF At(c, i) = 0
            THEN LET Ls == Substr(c, i + 1, lenBits)
                     at == i + 1 + lenBits
                 IN IF Ls = <<>> THEN [threw |-> FALSE, text |-> result]
                    ELSE decompressFrom(c, D, at + 8 * ParseBits(Ls),
                                        result \o charsOfBits(Substr(c, at, 8 * ParseBits(Ls))))
            ELSE LET docBits == intEncodedLen(1, Len(D))
                     ds == Substr(c, i + 1, docBits)
                     docIdx == ParseBits(ds)
                 IN IF ds = <<>> \/ docIdx >= Len(D)
                    THEN [threw |-> TRUE, text |-> result]
                    ELSE LET idxBits == intEncodedLen(1, Len(At(D, docIdx)))
                             is == Substr(c, i + 1 + docBits, idxBits)
                             ls == Substr(c, i + 1 + docBits + idxBits, lenBits)
                             piece == IF is = <<>> \/ ls = <<>> THEN <<>>
                                      ELSE Substr(At(D, docIdx), ParseBits(is), ParseBits(ls))
                         IN decompressFrom(c, D, i + 1 + docBits + idxBits + lenBits,
                                           result \o piece)

\* TextCompressor.decompress(compressed), lines 216-263.
decompress(c, D) ==
    IF c[1] = 0
    THEN [threw |-> FALSE, text |-> charsOfBits(SubSeq(c, 2, Len(c)))]
    ELSE decompressFrom(c, D, 1, <<>>)

\* Lines 4-20 and 269: the inputs and new TextCompressor(dictionary).
TextDictionary ==
    /\ pc = "textDictionary"
    /\ dictionary' = textDictionary(post)
    /\ pc' = "textCompress"
    /\ UNCHANGED <<payload, post, nestedAngles, TARGET_ANGLE_COUNT, bitsIn,
                   compression, cs, commentEmb, an, angleEmb,
                   fl, warnings, output, secret, script>>

\* Line 270: compressor.compress(payload).
TextCompress ==
    /\ pc = "textCompress"
    /\ compression' = compress(payload, dictionary)
    /\ pc' = "textDecompress"
    /\ UNCHANGED <<payload, post, nestedAngles, TARGET_ANGLE_COUNT, bitsIn,
                   dictionary, cs, commentEmb, an, angleEmb,
                   fl, warnings, output, secret, script>>

\* Lines 271-283: compressor.decompress(compressed) and the returned item; a
\* TypeError thrown by decompress leaves the script without result.
TextValidate ==
    /\ pc = "textDecompress"
    /\ LET decoded == decompress(compression.compressed, dictionary)
       IN IF decoded.threw
          THEN /\ pc' = "TypeError"
               /\ UNCHANGED output
          ELSE /\ output' = [dictionary |-> dictionary,
                             payload |-> payload,
                             compressed |-> compression.compressed,
                             compressedLength |-> Len(compression.compressed),
                             originalLength |-> Len(toBinaryUtf8(payload)),
                             usedDict |-> compression.usedDict,
                             decoded |-> decoded.text,
                             validationPassed |-> decoded.text = payload]
               /\ pc' = "done"
    /\ UNCHANGED <<payload, post, nestedAngles, TARGET_ANGLE_COUNT, bitsIn,
                   dictionary, compression, cs, commentEmb, an, angleEmb,
                   fl, warnings, secret, script>>

(***************************************************************************)
(* Specifications.                                                         *)
(***************************************************************************)

NextCompress == BuildDictionary \/ Compress

NextComment == CommentSelect \/ ChainStep \/ CommentReturn

NextAngle == AngleSelect \/ AngleStep \/ AngleReturn

NextFlatten ==
    FlattenStart \/ FlattenCall \/ FlattenOverflow \/ FlattenPop \/ FlattenReturn

\* The callback of main on one item, lines 1382-1445.
Next ==
    \/ Main
    \/ BuildDictionary
    \/ Compress
    \/ CommentSelect
    \/ ChainStep
    \/ CommentReturn
    \/ AngleSelect
    \/ AngleStep
    \/ AngleReturn
    \/ Output

\* The whole encoder on one item.
Spec == Init /\ [][Next]_vars

\* compressPayload alone, on payloads with multi-byte and astral characters.
SpecCompress == InitCompress /\ [][NextCompress]_vars

\* compressPayload alone, on two-letter texts long enough for two references.
SpecOptimal == InitOptimal /\ [][NextCompress]_vars

\* compressPayload alone, on payloads with a letter that only a literal can carry.
SpecCover == InitCover /\ [][NextCompress]_vars

\* compressPayload alone, on two-letter texts whose carriers can repeat each other.
SpecTie == InitTie /\ [][NextCompress]_vars

\* buildDictionary on carriers with unusable entries, then compressPayload.
SpecDictionary == InitDictionary /\ [][NextCompress]_vars

\* embedInCommentSelection alone.
SpecComment == InitComment /\ [][NextComment]_vars

\* embedInCommentSelection alone, on arbitrary parent ids.
SpecChain == InitChain /\ [][NextComment]_vars

\* flattenComments alone, call by call.
SpecFlatten == InitFlatten /\ [][NextFlatten]_vars

\* embedInAngleSelection alone.
SpecAngle == InitAngle /\ [][NextAngle]_vars

\* compression.js on one input.
NextText == TextDictionary \/ TextCompress \/ TextValidate

\* compression.js on payloads of plain letters and of a two-byte letter.
SpecText == InitText /\ [][NextText]_vars

\* The callback of main of the first script on one item, lines 745-904.
NextFinder ==
    \/ Main
    \/ BuildDictionary
    \/ Compress
    \/ CommentSelect
    \/ ChainStep
    \/ CommentReturn
    \/ SelectOneAngle
    \/ FinderCheck
    \/ FinderFetch
    \/ SearchResult
    \/ FinderOutput

\* The first script on one item, with every outcome of the finder's request.
SpecFinder == InitFinder /\ [][NextFinder]_vars

(***************************************************************************)
(* The keyword encoder, src/unnamed/part_004.                              *)
(***************************************************************************)

\* The variables the stand-alone scripts leave alone.
embeddingVars ==
    <<post, nestedAngles, TARGET_ANGLE_COUNT, bitsIn, dictionary, compression, cs,
      commentEmb, an, angleEmb, fl, warnings, secret>>

\* The constructor, line 12: subject, predicate, object, emotion, in this order.
categories == <<"subject", "predicate", "object", "emotion">>

\* A keyword list of n keywords "k1", "k2", ...
MaxKeywords == 3

Keywords(n) == [k \in 1..n |-> <<107, 48 + k>>]

\* keyword_sets[category] of a keyword_sets without the category: undefined.
NoKeywords == <<NotAString>>

\* keyword_sets[category]: missing, empty, or a list of keywords.
KeywordLists == {NoKeywords} \cup {Keywords(n) : n \in 0..MaxKeywords}

\* The payload of the keyword encoder: a bit string of at most MaxKeyBits bits.
MaxKeyBits == 4

InitKeyword ==
    /\ pc = "keywordEncode"
    /\ payload \in BitStrings(MaxKeyBits)
    /\ \E sets \in [{categories[c] : c \in 1..Len(categories)} -> KeywordLists] :
          script = [keyword_sets |-> sets,
                    catIndex |-> 0,
                    bitIndex |-> 0,
                    result |-> [encoded |-> <<>>,
                                used_bits |-> 0,
                                original_payload |-> payload,
                                leftover_payload |-> <<>>]]
    /\ post = [selftext |-> NotAString, search_results |-> <<>>,
               comments |-> NoComments]
    /\ nestedAngles = <<>>
    /\ TARGET_ANGLE_COUNT = NullTarget
    /\ bitsIn = <<>>
    /\ dictionary = Unset
    /\ compression = Unset
    /\ cs = Unset
    /\ commentEmb = Unset
    /\ an = Unset
    /\ angleEmb = Unset
    /\ fl = Unset
    /\ warnings = <<>>
    /\ output = Unset
    /\ secret = Unset

\* KeywordEncoder.bitsNeeded(n), lines 19-21.
bitsNeeded(n) == IF n <= 1 THEN 1 ELSE CeilLog2(n)

\* The entry one iteration of encode pushes, lines 35-77, for the category's
\* keywords and the bits from bitIndex on.
encodeEntry(category, keywords, text, bitIndex) ==
    IF keywords = NoKeywords \/ keywords = <<>>
    THEN [category |-> category, keyword |-> NotAString, index |-> 0,
          bits_used |-> 0, bits |-> NotAString]
    ELSE IF bitIndex + bitsNeeded(Len(keywords)) > Len(text)
    THEN [category |-> category, keyword |-> keywords[1], index |-> 0,
          bits_used |-> 0, bits |-> NotAString]
    ELSE LET bits == SubSeq(text, bitIndex + 1, bitIndex + bitsNeeded(Len(keywords)))
             index == ParseBits(bits)
             safeIndex == Min2(index, Len(keywords) - 1)
         IN [category |-> category, keyword |-> keywords[safeIndex + 1],
             index |-> safeIndex, bits_used |-> bitsNeeded(Len(keywords)),
             bits |-> bits]

\* One iteration of the loop of encode, lines 34-80.
EncodeCategory ==
    /\ pc = "keywordEncode"
    /\ script.catIndex < Len(categories)
    /\ LET category == categories[script.catIndex + 1]
           entry == encodeEntry(category, script.keyword_sets[category], payload,
                                script.bitIndex)
       IN script' = [script EXCEPT
                        !.result.encoded = Append(@, entry),
                        !.bitIndex = @ + entry.bits_used,
                        !.catIndex = @ + 1]
    /\ UNCHANGED <<pc, payload, output>>
    /\ UNCHANGED embeddingVars

\* Lines 82-84: the end of encode.
EncodeReturn ==
    /\ pc = "keywordEncode"
    /\ script.catIndex >= Len(categories)
    /\ script' = [script EXCEPT
                     !.result.used_bits = script.bitIndex,
                     !.result.leftover_payload =
                         SubSeq(payload, script.bitIndex + 1, Len(payload))]
    /\ pc' = "keywordDecode"
    /\ UNCHANGED <<payload, output>>
    /\ UNCHANGED embeddingVars

\* KeywordEncoder.decode(encoded), lines 88-105, on the array of entries it is
\* called with at line 132: an array has no leftover_payload, and lines 100-102
\* add nothing.
decode(encoded) ==
    Flat([k \in 1..Len(encoded) |->
            IF encoded[k].bits_used > 0
            THEN PadStart(ToBinary(encoded[k].index), encoded[k].bits_used)
            ELSE <<>>])

\* KeywordEncoder.getStats(originalPayload, encoded), lines 108-124; the quotient
\* usedBits / originalBits is kept as its two terms.
getStats(originalPayload, encoded) ==
    [original_bits |-> Len(originalPayload),
     used_bits |-> encoded.used_bits,
     leftover_bits |-> Len(encoded.leftover_payload),
     compression_ratio |-> <<encoded.used_bits, Len(originalPayload)>>,
     bits_saved |-> Len(originalPayload) - encoded.used_bits,
     categories_used |-> Len(encoded.encoded)]

\* Lines 132-147: decode, the statistics, the validation and the returned item.
KeywordValidate ==
    /\ pc = "keywordDecode"
    /\ LET decoded == decode(script.result.encoded)
       IN output' = [payload |-> payload,
                     keyword_sets |-> script.keyword_sets,
                     encoded |-> script.result,
                     decoded |-> decoded,
                     validationPassed |-> decoded = payload,
                     stats |-> getStats(payload, script.result)]
    /\ pc' = "done"
    /\ UNCHANGED <<payload, script>>
    /\ UNCHANGED embeddingVars

NextKeyword == EncodeCategory \/ EncodeReturn \/ KeywordValidate

\* The keyword encoder on one payload and one choice of keyword sets.
SpecKeyword == InitKeyword /\ [][NextKeyword]_vars

(***************************************************************************)
(* UnifiedEmbeddingV2, src/unnamed/part_001: embedInCommentSelection.      *)
(***************************************************************************)

\* The chain entries the engine can hold before it stops the script: more than
\* any walk over distinct comments needs.
MaxChainLength == MaxComments + 2

\* embedInCommentSelection on comment lists with arbitrary parent ids, the bitstream
\* being the three bits of an index.
InitChainV2 ==
    /\ pc = "commentSelectV2"
    /\ payload = <<>>
    /\ \E comments \in LooseForests(MaxComments - 1) :
            post = [selftext |-> <<>>, search_results |-> <<>>, comments |-> comments]
    /\ nestedAngles = <<>>
    /\ TARGET_ANGLE_COUNT = NullTarget
    /\ bitsIn \in {b \in BitStrings(MaxBits) : Len(b) = 3}
    /\ InitRest

\* Lines 372-387: embedInCommentSelection(bits, post) up to the chain walk; commentMap
\* is kept as the flattened list it is built from.
CommentSelectV2 ==
    /\ pc = "commentSelectV2"
    /\ LET flattenedComments == flattenComments(post.comments)
           n == Len(flattenedComments)
           bitsCount == getBitWidth(n)
           tb == takeBits(bitsIn, bitsCount)
           selectionIndex == reduceIndex(ParseBits(tb.bitsUsed), n)
           walk == selectionIndex > 0 /\ n > 0
           pickedComment == IF walk THEN flattenedComments[selectionIndex] ELSE 0
       IN /\ script' = [flattenedComments |-> flattenedComments,
                        n |-> n,
                        bitsCount |-> bitsCount,
                        bitsUsed |-> tb.bitsUsed,
                        remaining |-> tb.remaining,
                        insufficient |-> tb.insufficient,
                        selectionIndex |-> selectionIndex,
                        pickedComment |-> pickedComment,
                        current |-> pickedComment,
                        chain |-> <<>>]
          /\ pc' = IF walk THEN "chainWalkV2" ELSE "commentReturnV2"
    /\ UNCHANGED <<payload, output>>
    /\ UNCHANGED embeddingVars

\* Line 393: current === pickedComment, the only guard against parent loops.
backAtPicked(current, pickedComment) == current = pickedComment

\* One iteration of while (current), lines 389-394.
ChainStepV2 ==
    /\ pc = "chainWalkV2"
    /\ Len(script.chain) < MaxChainLength
    /\ LET nodes == post.comments.nodes
           current == nodes[script.current]
           chain == <<script.current>> \o script.chain
           parent == commentMapGet(nodes, script.flattenedComments, current.parent_id,
                                   script.n)
       IN IF current.parent_id = current.link_id
          THEN /\ script' = [script EXCEPT !.chain = chain]
               /\ pc' = "commentReturnV2"
          ELSE /\ script' = [script EXCEPT !.chain = chain, !.current = parent]
               /\ pc' = IF parent = 0 \/ backAtPicked(parent, script.pickedComment)
                        THEN "commentReturnV2"
                        ELSE "chainWalkV2"
    /\ UNCHANGED <<payload, output>>
    /\ UNCHANGED embeddingVars

\* The loop of lines 389-394 still running when the chain has outgrown what the
\* engine can hold: the script is stopped without a result.
ChainAbortV2 ==
    /\ pc = "chainWalkV2"
    /\ Len(script.chain) >= MaxChainLength
    /\ pc' = "aborted"
    /\ UNCHANGED <<payload, output, script>>
    /\ UNCHANGED embeddingVars

\* The entry of pickedCommentChain made of the comment c, lines 396-402.
chainEntryV2(c) ==
    [name |-> IF c.author = "" THEN "Unknown" ELSE c.author,
     body |-> IF c.body = NotAString THEN <<>> ELSE c.body,
     id |-> c.id,
     parent_id |-> c.parent_id,
     permalink |-> c.permalink]

\* Lines 396-432: the chain mapped to its entries and the returned object (the
\* context copies fields of the post and is left out).
CommentReturnV2 ==
    /\ pc = "commentReturnV2"
    /\ output' =
          [result |->
              [bitsUsed |-> script.bitsUsed,
               bitsCount |-> script.bitsCount,
               flatCommentsLength |-> script.n,
               selectionIndex |-> script.selectionIndex,
               targetType |-> IF script.selectionIndex = 0 THEN "post" ELSE "comment",
               pickedCommentChain |->
                   [k \in 1..Len(script.chain) |->
                       chainEntryV2(post.comments.nodes[script.chain[k]])],
               insufficientBits |-> script.insufficient],
           bitsConsumed |-> script.bitsCount,
           remainingBits |-> script.remaining,
           insufficientBits |-> script.insufficient]
    /\ pc' = "done"
    /\ UNCHANGED <<payload, script>>
    /\ UNCHANGED embeddingVars

NextChainV2 == CommentSelectV2 \/ ChainStepV2 \/ ChainAbortV2 \/ CommentReturnV2

\* embedInCommentSelection of UnifiedEmbeddingV2 alone, on arbitrary parent ids.
SpecChainV2 == InitChainV2 /\ [][NextChainV2]_vars

(***************************************************************************)
(* The dataset cleaner, src/functions/DsCsSampling.js lines 141-356 (Go).  *)
(***************************************************************************)

\* The directory holds at most MaxFiles entries, the machine at most MaxCPU cores.
MaxFiles == 4

MaxCPU == 2

\* The directory entries: TRUE for a name with extension .json.
Directories == UNION {[1..k -> BOOLEAN] : k \in 0..MaxFiles}

\* Line 217: concurrencyLimit := runtime.NumCPU() * 2.
concurrencyLimit(numCPU) == numCPU * 2

InitCleaner ==
    /\ pc = "main"
    /\ \E files \in Directories, numCPU \in 1..MaxCPU :
          script = [files |-> files,
                    numCPU |-> numCPU,
                    concurrencyLimit |-> 0,
                    i |-> 0,
                    sem |-> 0,
                    wg |-> 0,
                    processedCount |-> 0,
                    outcome |-> [k \in 1..Len(files) |-> "none"],
                    worker |-> [k \in 1..Len(files) |-> "none"]]
    /\ payload = <<>>
    /\ post = [selftext |-> NotAString, search_results |-> <<>>,
               comments |-> NoComments]
    /\ nestedAngles = <<>>
    /\ TARGET_ANGLE_COUNT = NullTarget
    /\ bitsIn = <<>>
    /\ dictionary = Unset
    /\ compression = Unset
    /\ cs = Unset
    /\ commentEmb = Unset
    /\ an = Unset
    /\ angleEmb = Unset
    /\ fl = Unset
    /\ warnings = <<>>
    /\ output = Unset
    /\ secret = Unset

\* Lines 206-223: MkdirAll and ReadDir (either may fail, and main panics), then the
\* semaphore, the wait group and the counter.
MainStart ==
    /\ pc = "main"
    /\ \E failed \in BOOLEAN :
          IF failed
          THEN /\ pc' = "panic"
               /\ UNCHANGED script
          ELSE /\ pc' = "range"
               /\ script' = [script EXCEPT
                                !.concurrencyLimit = concurrencyLimit(script.numCPU)]
    /\ UNCHANGED <<payload, output>>
    /\ UNCHANGED embeddingVars

\* Lines 225-228: the next entry is not a .json file.
MainSkip ==
    /\ pc = "range"
    /\ script.i < Len(script.files)
    /\ ~script.files[script.i + 1]
    /\ script' = [script EXCEPT !.i = @ + 1]
    /\ UNCHANGED <<pc, payload, output>>
    /\ UNCHANGED embeddingVars

\* Lines 225-230: the next entry is a .json file, wg.Add(1).
MainAdd ==
    /\ pc = "range"
    /\ script.i < Len(script.files)
    /\ script.files[script.i + 1]
    /\ script' = [script EXCEPT !.i = @ + 1, !.wg = @ + 1]
    /\ pc' = "semSend"
    /\ UNCHANGED <<payload, output>>
    /\ UNCHANGED embeddingVars

\* A send on the buffered channel sem proceeds when the buffer has room.
semHasRoom(sem, limit) == sem < limit

\* Line 231: sem <- struct{}{}, blocking while the buffer is full.
MainSemSend ==
    /\ pc = "semSend"
    /\ semHasRoom(script.sem, script.concurrencyLimit)
    /\ script' = [script EXCEPT !.sem = @ + 1]
    /\ pc' = "go"
    /\ UNCHANGED <<payload, output>>
    /\ UNCHANGED embeddingVars

\* Lines 233-239: go func(filename) {...}(file.Name()).
MainGo ==
    /\ pc = "go"
    /\ script' = [script EXCEPT !.worker[script.i] = "processFile"]
    /\ pc' = "range"
    /\ UNCHANGED <<payload, output>>
    /\ UNCHANGED embeddingVars

\* Line 237 and lines 258-322: processFile(filename) returns after an error
\* message, after skipping a post without comments, or after writing the cleaned
\* post.
ProcessFile(w) ==
    /\ script.worker[w] = "processFile"
    /\ \E outcome \in {"failed", "skipped", "written"} :
          script' = [script EXCEPT !.worker[w] = "atomicAdd", !.outcome[w] = outcome]
    /\ UNCHANGED <<pc, payload, output>>
    /\ UNCHANGED embeddingVars

\* Line 238: atomic.AddInt64(&processedCount, 1).
AtomicAdd(w) ==
    /\ script.worker[w] = "atomicAdd"
    /\ script' = [script EXCEPT !.worker[w] = "semReceive", !.processedCount = @ + 1]
    /\ UNCHANGED <<pc, payload, output>>
    /\ UNCHANGED embeddingVars

\* Line 235, the deferred call that runs first: <-sem.
SemReceive(w) ==
    /\ script.worker[w] = "semReceive"
    /\ script.sem > 0
    /\ script' = [script EXCEPT !.worker[w] = "wgDone", !.sem = @ - 1]
    /\ UNCHANGED <<pc, payload, output>>
    /\ UNCHANGED embeddingVars

\* Line 234, the deferred call that runs last: wg.Done().
WgDone(w) ==
    /\ script.worker[w] = "wgDone"
    /\ script' = [script EXCEPT !.worker[w] = "finished", !.wg = @ - 1]
    /\ UNCHANGED <<pc, payload, output>>
    /\ UNCHANGED embeddingVars

\* The end of the range loop, lines 225-240.
MainRangeEnd ==
    /\ pc = "range"
    /\ script.i >= Len(script.files)
    /\ pc' = "wgWait"
    /\ UNCHANGED <<payload, output, script>>
    /\ UNCHANGED embeddingVars

\* wg.Wait() returning whatever the counter is (mutant).
wgWaitReturnsAlways(wg) == TRUE

\* wg.Wait() returns when the counter of the wait group is zero.
wgWaitReturns(wg) == wg = 0

\* Lines 242-244: wg.Wait() and the report "Done! Processed %d files".
MainDone ==
    /\ pc = "wgWait"
    /\ wgWaitReturns(script.wg)
    /\ output' = [processedCount |-> script.processedCount]
    /\ pc' = "done"
    /\ UNCHANGED <<payload, script>>
    /\ UNCHANGED embeddingVars

NextCleaner ==
    \/ MainStart
    \/ MainSkip
    \/ MainAdd
    \/ MainSemSend
    \/ MainGo
    \/ MainRangeEnd
    \/ MainDone
    \/ \E w \in 1..Len(script.files) :
          ProcessFile(w) \/ AtomicAdd(w) \/ SemReceive(w) \/ WgDone(w)

\* main of the dataset cleaner and its workers, interleaved.
SpecCleaner == InitCleaner /\ [][NextCleaner]_vars

(***************************************************************************)
(* Compression claims.                                                     *)
(***************************************************************************)

\* C1: decoding compressPayload(payload, dictionary).compressed with the mode-aware
\* decoder reconstructs exactly the payload, for every payload (multi-byte and
\* surrogate-pair characters included) and every dictionary.
C1_RoundTrip ==
    Compressed =>
        LET r == DecodeStream(compression.compressed, dictionary, FALSE)
        IN r.ok /\ r.text = payload

\* The round trip through a decoder that also accepts 3-byte encodings of lone
\* surrogates (not UTF-8).
RoundTripLenient ==
    Compressed =>
        LET r == DecodeStream(compression.compressed, dictionary, TRUE)
        IN r.ok /\ r.text = payload

\* C2: the emitted mode is the one whose total length (flag included) is not larger
\* than the other's: dictionary-mode length >= 1 + 8 * byte_length(payload) gives
\* '0' ++ to_bits(payload) with method standard, otherwise '1' ++ token stream with
\* method dictionary.
C2_ModeMinimality ==
    Compressed =>
        LET stdLen == 1 + 8 * getUtf8ByteLength(payload)
            dictLen == 1 + Len(JoinBits(compression.tokens))
        IN /\ dictLen >= stdLen =>
                /\ compression.method = "standard"
                /\ compression.compressed = <<0>> \o toBinaryUtf8(payload)
           /\ dictLen < stdLen =>
                /\ compression.method = "dictionary"
                /\ compression.compressed = <<1>> \o JoinBits(compression.tokens)
           /\ Len(compression.compressed) = compression.compressedLength
           /\ Len(compression.compressed) = Min2(stdLen, dictLen)

\* C2 witness: a payload for which the dictionary mode is strictly shorter and chosen.
C2_Witness ==
    /\ Compressed
    /\ compression.method = "dictionary"
    /\ compression.compressedLength < 1 + 8 * getUtf8ByteLength(payload)

\* C3: the chosen token sequence has the minimum total bit cost among all sequences
\* of literals and of references (d, o, L) with L > 2 that reproduce the payload.
C3_DPOptimal ==
    Compressed =>
        /\ compression.dp0 = OptimalCost(payload, dictionary)
        /\ SumWidths(compression.tokens) = OptimalCost(payload, dictionary)

\* C4: every emitted token occupies exactly its declared width, so the emitted
\* dictionary-mode length is 1 + dp[0].
C4_WidthLaw ==
    Compressed =>
        /\ \A k \in 1..Len(compression.tokens) :
              Len(compression.tokens[k].bits) = DeclaredWidth(compression.tokens[k])
        /\ compression.dictLength = 1 + compression.dp0

\* C4 witness: a dictionary-mode result with a literal and a reference whose length
\* field holds the largest value, M_global.
C4_Witness ==
    /\ Compressed
    /\ compression.method = "dictionary"
    /\ \E k \in 1..Len(compression.tokens) : compression.tokens[k].kind = "literal"
    /\ \E k \in 1..Len(compression.tokens) :
          /\ compression.tokens[k].kind = "dict"
          /\ compression.tokens[k].len = GlobalMaxMatch(dictionary)

(***************************************************************************)
(* Comment selector claims (SpecComment).                                  *)
(***************************************************************************)

\* The number of comments of the forest, counted on the carrier itself.
CommentCount == Len(post.comments.nodes)

\* The unsigned value of the first k bits of b, zero-padded on the right.
PrefixValue(b, k) == ParseBits(PadEnd(SubSeq(b, 1, Min2(k, Len(b))), k))

CommentDone == commentEmb # Unset

\* C5 as stated: for every forest, the empty one included, the comment selector
\* consumes exactly ceil(log2(|F| + 1)) bits (bitsCount and the length of bitsUsed).
C5_CeilLogEverywhere ==
    CommentDone =>
        /\ commentEmb.bitsCount = CeilLog2(CommentCount + 1)
        /\ Len(commentEmb.bitsUsed) = CeilLog2(CommentCount + 1)

\* C5 amended: the comment selector consumes exactly width(|F|) bits, which is
\* ceil(log2(|F| + 1)) for a non-empty forest and 1 bit for the empty forest.
C5_WidthOfForest ==
    CommentDone =>
        LET k == IF CommentCount = 0 THEN 1 ELSE CeilLog2(CommentCount + 1)
        IN /\ commentEmb.bitsCount = k
           /\ Len(commentEmb.bitsUsed) = k

\* C5 witness: the empty forest, where one bit is consumed.
C5_Witness ==
    /\ CommentDone
    /\ CommentCount = 0
    /\ commentEmb.bitsCount = 1
    /\ Len(cs.bits) > 0

\* C6: the resolved index lies in 0..n; the target is the post with an empty chain
\* exactly when the index is 0, otherwise it is a comment and the chain ends with
\* the projection of F[index - 1].
C6_IndexAndTarget ==
    CommentDone =>
        LET F == flattenComments(post.comments)
            idx == cs.selectionIndex
        IN /\ idx \in 0..CommentCount
           /\ (commentEmb.targetType = "post") = (idx = 0)
           /\ commentEmb.targetType \in {"post", "comment"}
           /\ (commentEmb.pickedCommentChain = <<>>) = (idx = 0)
           /\ idx > 0 =>
                commentEmb.pickedCommentChain[Len(commentEmb.pickedCommentChain)]
                    = projectComment(post.comments.nodes[F[idx]])

\* C6 witness: a reply is picked and its chain holds an ancestor before it.
C6_Witness ==
    /\ CommentDone
    /\ cs.selectionIndex > 1
    /\ commentEmb.targetType = "comment"
    /\ Len(commentEmb.pickedCommentChain) > 1

\* C7 as stated: when the value s of the first ceil(log2(n + 1)) bits exceeds n, the
\* chosen index is min(s, n + 1) mod (n + 1).
C7_MinThenMod ==
    CommentDone =>
        LET n == CommentCount
            k == CeilLog2(n + 1)
            s == PrefixValue(cs.bits, k)
        IN (Len(cs.bits) >= k /\ s > n) => cs.selectionIndex = Min2(s, n + 1) % (n + 1)

\* C7 amended: when the value s of the first ceil(log2(n + 1)) bits (zero-padded if
\* the bitstream is shorter) exceeds n, the chosen index is s mod (n + 1).
C7_Mod ==
    CommentDone =>
        LET n == CommentCount
            s == PrefixValue(cs.bits, CeilLog2(n + 1))
        IN s > n => cs.selectionIndex = s % (n + 1)

\* C7 witness: four comments, s = 6, index 1.
C7_Witness ==
    /\ CommentDone
    /\ CommentCount = 4
    /\ PrefixValue(cs.bits, 3) = 6
    /\ cs.selectionIndex = 1

(***************************************************************************)
(* Angle selector claims (SpecAngle).                                      *)
(***************************************************************************)

\* The pool: the non-null angles in document-major order, read off the input.
Pool == SelectSeq(Flat(nestedAngles), LAMBDA a : a # 0)

AngleDone == angleEmb # Unset

RECURSIVE SumOver(_, _, _)
SumOver(f(_), lo, hi) == IF lo > hi THEN 0 ELSE f(lo) + SumOver(f, lo + 1, hi)

\* C8 as stated: with target T >= 1 and pool size P the angle selector consumes the
\* sum over k in [0, min(T, P)) of ceil(log2(P - k + 1)) bits.
C8_SumOfWidths ==
    (AngleDone /\ TARGET_ANGLE_COUNT >= 1) =>
        LET P == Len(Pool)
            w(k) == CeilLog2(P - k + 1)
        IN angleEmb.bitsCount = SumOver(w, 0, Min2(TARGET_ANGLE_COUNT, P) - 1)

\* C8 amended: with target T >= 1 and pool size P the angle selector consumes the
\* sum over k in [0, min(T, P)) of ceil(log2(P - k)) bits.
C8_SumOfCeilLogs ==
    (AngleDone /\ TARGET_ANGLE_COUNT >= 1) =>
        LET P == Len(Pool)
            w(k) == CeilLog2(P - k)
        IN /\ angleEmb.bitsCount = SumOver(w, 0, Min2(TARGET_ANGLE_COUNT, P) - 1)
           /\ Len(angleEmb.bitsUsed) = angleEmb.bitsCount

\* C8 witness: a pool of two or more angles with a target reached.
C8_Witness ==
    /\ AngleDone
    /\ TARGET_ANGLE_COUNT >= 2
    /\ Len(Pool) >= 3
    /\ Len(angleEmb.selectedAngles) = TARGET_ANGLE_COUNT
    /\ angleEmb.bitsCount = 3

\* C9: every step with pool size r pops exactly ceil(log2(r)) bits (none for r = 1),
\* zero-padded if the bitstream is exhausted, selects pool[value mod r] and removes
\* it; the loop goes on after the bits run out, so [[x, y], [z]] with target 2 and
\* bits '10' gives selectedAngles = [z, x] with insufficientBits set.
C9_StepRule ==
    [][/\ AngleStep =>
            LET r == Len(an.availableAngles)
                k == CeilLog2(r)
                popped == PadEnd(SubSeq(an.currentBits, 1, Min2(k, Len(an.currentBits))), k)
                value == ParseBits(popped)
            IN /\ an'.totalBitsUsedStr = an.totalBitsUsedStr \o popped
               /\ Len(an'.totalBitsUsedStr) = Len(an.totalBitsUsedStr) + k
               /\ an'.currentBits = SubSeq(an.currentBits, k + 1, Len(an.currentBits))
               /\ an'.selectedAngles
                    = Append(an.selectedAngles, an.availableAngles[(value % r) + 1])
               /\ an'.availableAngles = RemoveAt(an.availableAngles, value % r)
               /\ an'.anyInsufficient = (an.anyInsufficient \/ Len(an.currentBits) < k)
       /\ (AngleReturn /\ nestedAngles = <<<<11, 12>>, <<21>>>>
             /\ TARGET_ANGLE_COUNT = 2 /\ an.bits = <<1, 0>>) =>
                /\ angleEmb'.selectedAngles = <<21, 11>>
                /\ angleEmb'.insufficientBits]_vars

\* C9 witness: scenario S4 has run to its result.
C9_Witness ==
    /\ AngleDone
    /\ nestedAngles = <<<<11, 12>>, <<21>>>>
    /\ TARGET_ANGLE_COUNT = 2
    /\ an.bits = <<1, 0>>
    /\ angleEmb.selectedAngles = <<21, 11>>
    /\ angleEmb.insufficientBits

\* C10: with a target of 0 or null the angle selector fills the pool: every angle of
\* the flattened pool ends up in selectedAngles and unselectedAngles is empty.
C10_ZeroFillsPool ==
    (AngleDone /\ TARGET_ANGLE_COUNT \in {0, NullTarget}) =>
        /\ Len(angleEmb.selectedAngles) = Len(Pool)
        /\ {angleEmb.selectedAngles[k] : k \in 1..Len(angleEmb.selectedAngles)}
             = {Pool[k] : k \in 1..Len(Pool)}
        /\ angleEmb.unselectedAngles = <<>>

\* The number of occurrences of x in the sequence s.
CountIn(s, x) == Cardinality({k \in 1..Len(s) : s[k] = x})

\* The first position of x in the sequence s.
PosIn(s, x) == CHOOSE k \in 1..Len(s) : s[k] = x /\ \A j \in 1..(k - 1) : s[j] # x

\* C11: no pool position is selected twice: selectedAngles followed by
\* unselectedAngles is a permutation of the flattened document-major pool,
\* unselectedAngles keeps the pool's relative order, and for a target T >= 1 exactly
\* min(T, pool size) angles are selected. (The angles of the input families are
\* pairwise distinct, so an angle identifies its pool position.)
C11_SelectionIsPermutation ==
    AngleDone =>
        LET sel == angleEmb.selectedAngles
            uns == angleEmb.unselectedAngles
            all == sel \o uns
        IN /\ Len(all) = Len(Pool)
           /\ \A k \in 1..Len(Pool) : CountIn(all, Pool[k]) = 1
           /\ \A k \in 1..Len(all) : CountIn(Pool, all[k]) = 1
           /\ \A i, j \in 1..Len(uns) :
                 i < j => PosIn(Pool, uns[i]) < PosIn(Pool, uns[j])
           /\ TARGET_ANGLE_COUNT >= 1 =>
                 Len(sel) = Min2(TARGET_ANGLE_COUNT, Len(Pool))

\* C11 witness: two angles selected out of pool order from a pool of three or more,
\* with angles left over.
C11_Witness ==
    /\ AngleDone
    /\ Len(Pool) >= 3
    /\ Len(angleEmb.selectedAngles) = 2
    /\ Len(angleEmb.unselectedAngles) >= 1
    /\ PosIn(Pool, angleEmb.selectedAngles[1]) > PosIn(Pool, angleEmb.selectedAngles[2])

\* C12: takeBits(buf, k) for k > 0: if |buf| >= k then used ++ rest = buf with
\* |used| = k and insufficient = false; otherwise used = buf followed by k - |buf|
\* '0' bits, rest = '' and insufficient = true; the comment selector fed a
\* shorter-than-needed bitstream therefore pads with zeros and reports
\* insufficientBits instead of failing.
C12_TakeBitsLaw ==
    (cs # Unset) =>
        LET buf == cs.bits
            k == cs.bitsCount
            used == cs.bitsUsed
            rest == cs.remaining
        IN /\ k > 0
           /\ Len(buf) >= k =>
                 /\ used \o rest = buf
                 /\ Len(used) = k
                 /\ ~cs.insufficient
           /\ Len(buf) < k =>
                 /\ used = buf \o [i \in 1..(k - Len(buf)) |-> 0]
                 /\ rest = <<>>
                 /\ cs.insufficient
           /\ CommentDone =>
                 /\ commentEmb.insufficientBits = (Len(buf) < k)
                 /\ commentEmb.bitsUsed = used
                 /\ commentEmb.remainingBits = rest

\* C12 witness: a non-empty bitstream two bits short of the width, padded and
\* reported.
C12_Witness ==
    /\ CommentDone
    /\ Len(cs.bits) >= 1
    /\ cs.bitsCount = Len(cs.bits) + 2
    /\ cs.bits[Len(cs.bits)] = 1
    /\ commentEmb.insufficientBits
    /\ Len(commentEmb.bitsUsed) = cs.bitsCount

(***************************************************************************)
(* Flattening and dictionary claims.                                       *)
(***************************************************************************)

\* The number of comments of the subtree of comment c (replies of replies included).
RECURSIVE SubtreeSize(_, _)
SubtreeSize(nodes, c) ==
    LET r == nodes[c].replies
        size(k) == SubtreeSize(nodes, r[k])
    IN 1 + SumOver(size, 1, Len(r))

\* F places the comments of the list sibs one subtree after the other, the first
\* at position first.
RECURSIVE SiblingsLaidOut(_, _, _, _)
SiblingsLaidOut(nodes, F, sibs, first) ==
    \/ sibs = <<>>
    \/ /\ first <= Len(F)
       /\ F[first] = Head(sibs)
       /\ SiblingsLaidOut(nodes, F, Tail(sibs), first + SubtreeSize(nodes, Head(sibs)))

\* F is the pre-order traversal of the forest: the roots in the given order, every
\* comment immediately followed by the subtrees of its replies in order, and every
\* comment exactly once.
IsPreOrder(F, comments) ==
    LET nodes == comments.nodes
        roots == SelectSeq(comments.roots, LAMBDA c : c # 0)
    IN /\ \A c \in 1..Len(nodes) : CountIn(F, c) = 1
       /\ Len(F) = Len(nodes)
       /\ SiblingsLaidOut(nodes, F, roots, 1)
       /\ \A c \in 1..Len(nodes) :
             SiblingsLaidOut(nodes, F, nodes[c].replies, PosIn(F, c) + 1)

\* C13: flattenComments returns the pre-order traversal of the forest: roots in
\* the given order, each node immediately followed by the flattened traversal of
\* its replies in order, every node exactly once.
C13_FlattenIsPreOrder ==
    (cs # Unset) => IsPreOrder(cs.flattenedComments, post.comments)

\* C13 witness: a forest of four or more comments with a reply of a reply, whose
\* pre-order differs from the order in which the comments were created.
C13_Witness ==
    /\ cs # Unset
    /\ cs.n >= 4
    /\ \E k \in 1..(cs.n - 1) : cs.flattenedComments[k] > cs.flattenedComments[k + 1]
    /\ \E c \in 1..CommentCount :
          /\ post.comments.nodes[c].replies # <<>>
          /\ \E d \in 1..CommentCount :
                /\ post.comments.nodes[d].replies # <<>>
                /\ \E k \in 1..Len(post.comments.nodes[d].replies) :
                      post.comments.nodes[d].replies[k] = c

\* buildDictionary has returned.
DictionaryBuilt ==
    /\ pc \notin {"main", "buildDictionary"}
    /\ pc = "done" => compression # Unset

\* A usable dictionary text: a string that is not empty.
IsText(v) == v # NotAString /\ v # <<>>

\* The comments of the forest in pre-order, by the definition of IsPreOrder.
PreOrderOf(comments) ==
    LET N == Len(comments.nodes)
    IN CHOOSE F \in [1..N -> 1..N] : IsPreOrder(F, comments)

\* C14: buildDictionary returns exactly [post body, each search-result document in
\* order, each flattened comment body in pre-order] with every empty or non-string
\* entry removed and the order of the surviving entries kept; no entry of the
\* result is empty.
C14_DictionaryContents ==
    DictionaryBuilt =>
        LET F == PreOrderOf(post.comments)
            bodies == [k \in 1..Len(F) |-> post.comments.nodes[F[k]].body]
            entries == <<post.selftext>> \o post.search_results \o bodies
        IN /\ dictionary = SelectSeq(entries, IsText)
           /\ \A k \in 1..Len(dictionary) : IsText(dictionary[k])

\* C14 witness: a post body, a document and comment bodies survive in that order,
\* the comment bodies in an order that differs from the order of creation, while an
\* empty document and a non-string body are dropped.
C14_Witness ==
    /\ DictionaryBuilt
    /\ Len(dictionary) >= 4
    /\ dictionary[1] = post.selftext
    /\ \E k \in 1..Len(post.search_results) : post.search_results[k] = <<>>
    /\ \E k \in 1..Len(post.search_results) : post.search_results[k] = dictionary[2]
    /\ \E c \in 1..CommentCount : post.comments.nodes[c].body = NotAString
    /\ \E k \in 3..(Len(dictionary) - 1) :
          /\ Len(dictionary[k]) = 1 /\ Len(dictionary[k + 1]) = 1
          /\ dictionary[k][1] > dictionary[k + 1][1]
          /\ dictionary[k + 1][1] > 100

(***************************************************************************)
(* Ancestor chain claims (SpecChain).                                      *)
(***************************************************************************)

\* The largest element of a non-empty set of numbers.
MaxOf(S) == CHOOSE x \in S : \A y \in S : y <= x

\* The comment a parent id p resolves to (0: none): the comment whose id is p,
\* otherwise, for p of the form <prefix>_<id>, the comment whose id is the part
\* after the last underscore; of several comments with one id, the last of F.
Resolve(nodes, F, p) ==
    LET exact == {k \in 1..Len(F) : nodes[F[k]].id = p}
        suffix == {k \in 1..Len(F) : nodes[F[k]].id = <<p[Len(p)]>>}
    IN IF exact # {} THEN F[MaxOf(exact)]
       ELSE IF Len(p) > 1 /\ suffix # {} THEN F[MaxOf(suffix)]
       ELSE 0

\* The forest of scenario S3: A answers the post, B carries parent_id t1_A.
ScenarioS3 == LooseForestOf(2, "unique", <<LinkId, <<"t1", "A">>>>)

\* C15: parent-resolution tolerance: every chain entry but the first is preceded by
\* the comment its parent_id resolves to, by exact id first and, if that is absent
\* and the parent_id has the form <prefix>_<id>, by the suffix after the last
\* underscore; the chain starts where the parent is the post, resolves to nothing or
\* is already in the chain. So with B.parent_id = t1_A and A.id = A, selecting B
\* (index 2) yields pickedCommentChain = [A, B], root first.
C15_ParentTolerance ==
    (CommentDone /\ cs.selectionIndex > 0) =>
        LET nodes == post.comments.nodes
            F == cs.flattenedComments
            chain == commentEmb.pickedCommentChain
            ids == {chain[k].id : k \in 1..Len(chain)}
            parentOf(k) == Resolve(nodes, F, chain[k].parent_id)
        IN /\ \A k \in 2..Len(chain) :
                 /\ chain[k].parent_id # LinkId
                 /\ parentOf(k) # 0
                 /\ chain[k - 1] = projectComment(nodes[parentOf(k)])
           /\ \/ chain[1].parent_id = LinkId
              \/ parentOf(1) = 0
              \/ nodes[parentOf(1)].id \in ids
           /\ (post.comments = ScenarioS3 /\ cs.selectionIndex = 2) =>
                 chain = <<projectComment(nodes[1]), projectComment(nodes[2])>>

\* C15 witness: scenario S3 has run and the chain is [A, B].
C15_Witness ==
    /\ CommentDone
    /\ post.comments = ScenarioS3
    /\ cs.selectionIndex = 2
    /\ Len(commentEmb.pickedCommentChain) = 2
    /\ commentEmb.pickedCommentChain[1].id = <<"A">>
    /\ commentEmb.pickedCommentChain[2].id = <<"B">>
    /\ commentEmb.pickedCommentChain[2].parent_id = <<"t1", "A">>

\* The ancestor chain built so far holds each comment id at most once, is no longer
\* than the flattened list and has one entry per visited id.
ChainBounded ==
    (cs # Unset) =>
        LET chain == cs.pickedCommentChain
        IN /\ \A i, j \in 1..Len(chain) : i # j => chain[i].id # chain[j].id
           /\ Len(chain) <= Len(cs.flattenedComments)
           /\ Len(chain) = Cardinality(cs.visitedIds)
           /\ cs.visitedIds \subseteq
                 {post.comments.nodes[c].id : c \in 1..CommentCount}

\* C16: the ancestor-chain walk terminates for every assignment of parent_id values
\* over the flattened comments, parent-id cycles and self-parents included: every
\* iteration either leaves the loop or visits one id not visited before, of which
\* there are at most |F| (so the loop body runs at most |F| + 1 times), and the chain
\* holds each comment id at most once and has length at most |F|.
C16_ChainWalkTerminates ==
    /\ []ChainBounded
    /\ [][ChainStep =>
             \/ pc' = "commentReturn"
             \/ /\ Cardinality(cs'.visitedIds) = Cardinality(cs.visitedIds) + 1
                /\ Cardinality(cs'.visitedIds) <= Len(cs.flattenedComments)]_vars

\* C16 witness: a walk that ran into a parent-id cycle of three comments and ended.
C16_Witness ==
    /\ CommentDone
    /\ Len(commentEmb.pickedCommentChain) = 3
    /\ commentEmb.pickedCommentChain[1].parent_id = commentEmb.pickedCommentChain[3].id
    /\ commentEmb.pickedCommentChain[3].parent_id = commentEmb.pickedCommentChain[2].id
    /\ commentEmb.pickedCommentChain[2].parent_id = commentEmb.pickedCommentChain[1].id

(***************************************************************************)
(* Termination of the flattener (SpecFlatten).                             *)
(***************************************************************************)

\* The comment c is reachable from itself through replies.
RECURSIVE ReachableIn(_, _, _)
ReachableIn(nodes, S, steps) ==
    IF steps = 0 THEN S
    ELSE ReachableIn(nodes,
                     S \cup UNION {{nodes[c].replies[k] : k \in 1..Len(nodes[c].replies)} :
                                    c \in S},
                     steps - 1)

OnReplyCycle(nodes, c) ==
    c \in ReachableIn(nodes, {nodes[c].replies[k] : k \in 1..Len(nodes[c].replies)},
                      Len(nodes))

HasReplyCycle == \E c \in 1..CommentCount : OnReplyCycle(post.comments.nodes, c)

\* On a forest the call-by-call run returns what flatten returns as a whole.
FlattenAgrees ==
    (pc = "flattenReturn" /\ ~HasReplyCycle /\ post.comments \in Forests) =>
        fl.result = flattenComments(post.comments)

\* C17: the comment tree flattener detects a repeated visit and terminates:
\* flattenComments returns a finite list even when the replies structure contains a
\* cycle, so no run of it ends in an exhausted call stack.
C17_FlattenTerminates == pc # "RangeError"

\* A reply cycle always exhausts the call stack: no run on such a structure returns.
CycleNeverReturns == HasReplyCycle => pc # "flattenReturn"

(***************************************************************************)
(* Compression scenarios (SpecCompress).                                   *)
(***************************************************************************)

\* M_global: the length of the longest dictionary entry.
LongestEntry(D) == IF D = <<>> THEN 0 ELSE MaxOf({Len(D[k]) : k \in 1..Len(D)})

\* The width of a reference token into entry 0 of the dictionary D.
SelfReferenceWidth(D) ==
    1 + getBitWidth(Len(D)) + getBitWidth(Len(D[1])) + getBitWidth(LongestEntry(D))

\* The result of scenario S2: dictionary mode, one reference token covering the
\* payload from offset 0 of entry 0.
IsSelfReference ==
    /\ compression.method = "dictionary"
    /\ compression.references = <<[doc |-> 0, idx |-> 0, len |-> Len(payload)]>>
    /\ compression.compressedLength = 1 + SelfReferenceWidth(dictionary)
    /\ Len(compression.compressed) = 1 + SelfReferenceWidth(dictionary)

NoSharedSubstring ==
    ~\E i \in 0..(Len(payload) - 3), d \in 1..Len(dictionary) :
        \E o \in 0..(Len(dictionary[d]) - 3) :
            Substr(payload, i, 3) = Substr(dictionary[d], o, 3)

InefficientWarning == "Dictionary compression inefficient; used standard encoding."

\* C19: if the payload shares no substring of length >= 3 with any dictionary entry
\* (the empty dictionary included), compressPayload returns method standard with
\* compressed = '0' ++ to_bits(payload) and empty references, and main adds the
\* 'Dictionary compression inefficient' warning; a method dictionary result always
\* contains at least one reference token.
C19_FallbackToStandard ==
    Compressed =>
        /\ NoSharedSubstring =>
              /\ compression.method = "standard"
              /\ compression.compressed = <<0>> \o toBinaryUtf8(payload)
              /\ compression.references = <<>>
              /\ \E k \in 1..Len(warnings) : warnings[k] = InefficientWarning
        /\ compression.method = "dictionary" =>
              \E k \in 1..Len(compression.references) :
                  compression.references[k].doc # NullDoc

\* C19 witness: a payload of three or more code units that shares at most two in a
\* row with a non-empty dictionary, encoded in standard mode with the warning.
C19_Witness ==
    /\ Compressed
    /\ NoSharedSubstring
    /\ Len(payload) >= 3
    /\ \E d \in 1..Len(dictionary) :
          /\ Len(dictionary[d]) >= 3
          /\ Substr(payload, 0, 2) = Substr(dictionary[d], 0, 2)
    /\ compression.method = "standard"
    /\ warnings = <<InefficientWarning>>

(***************************************************************************)
(* Coordinator claims (Spec).                                              *)
(***************************************************************************)

\* The secret holds a usable payload: a non-empty string, bare or wrapped.
UsableSecret == secret.kind = "string" /\ secret.str # <<>>

\* C20: when the payload is missing, not a string, or empty, encoding is aborted
\* before dictionary building: the output record of the item consists of only an
\* error field and a warnings list (no compression, commentEmbedding,
\* angleEmbedding or bit fields).
C20_InvalidPayloadAborts ==
    (~UsableSecret /\ pc # "main") =>
        /\ pc = "done"
        /\ DOMAIN output = {"error", "warnings"}
        /\ output.error = "No payload"
        /\ output.warnings = <<"Invalid payload">>
        /\ dictionary = Unset
        /\ compression = Unset
        /\ commentEmb = Unset
        /\ angleEmb = Unset

\* C20 witness: an empty string wrapped as { payload: "" } has been rejected.
C20_Witness ==
    /\ pc = "done"
    /\ secret = [kind |-> "string", str |-> <<>>, wrapped |-> TRUE]
    /\ compression = Unset
    /\ output.error = "No payload"

(***************************************************************************)
(* The warnings and the record of main.                                    *)
(***************************************************************************)

\* main has returned the full record (not the { error, warnings } of line 1394).
FullRecord == pc = "done" /\ "compression" \in DOMAIN output

HasWarning(w) == \E i \in DOMAIN output.warnings : output.warnings[i] = w

\* The texts line 1431 can produce for n left-over bits.
TruncatedTexts(n) ==
    {"Data truncated: " \o ToString(n) \o " bits could not be embedded (Limit of "
       \o t \o " angles reached)." :
     t \in {"available"} \cup {ToString(k) : k \in 1..(MaxTarget + 1)}}

\* The numbers of bits reported by the truncation warnings of the record.
TruncatedReports ==
    {n \in 0..(Len(output.compression.compressed) + 1) :
        \E w \in TruncatedTexts(n) : HasWarning(w)}

\* C21: the record holds a 'Data truncated' warning if and only if the compressed
\* bitstream has more bits than the two selectors consumed
\* (|compression.compressed| > totalBitsEmbedded), the warning occurs once, and the
\* number it reports is |angleEmbedding.remainingBits|.
C21_TruncatedWarning ==
    FullRecord =>
        /\ (TruncatedReports # {})
              <=> (Len(output.compression.compressed) > output.totalBitsEmbedded)
        /\ TruncatedReports \subseteq {Len(output.angleEmbedding.remainingBits)}
        /\ Cardinality({i \in DOMAIN output.warnings :
                          \E n \in TruncatedReports :
                              output.warnings[i] \in TruncatedTexts(n)}) <= 1

\* A record whose two selectors both consumed bits and left some of the stream.
C21_Witness ==
    /\ FullRecord
    /\ TruncatedReports # {}
    /\ output.commentEmbedding.bitsCount > 0
    /\ output.angleEmbedding.bitsCount > 0
    /\ Len(output.angleEmbedding.remainingBits) > 1

\* A record whose selectors consumed the whole stream and more: no truncation.
NothingTruncated ==
    /\ FullRecord
    /\ TruncatedReports = {}
    /\ Len(output.compression.compressed) <= output.totalBitsEmbedded

\* C22: the comment selector reads from the first bit of the compressed bitstream and
\* the angle selector reads exactly the leftover. When no selector padded, the stream
\* is commentEmbedding.bitsUsed ++ angleEmbedding.bitsUsed ++
\* angleEmbedding.remainingBits; when one padded, fullEncodedBits is the stream
\* followed only by '0' bits and remainingBits is empty.
C22_ConsumptionOrder ==
    FullRecord =>
        LET compressed == output.compression.compressed
            ce == output.commentEmbedding
            ae == output.angleEmbedding
            full == output.fullEncodedBits
        IN /\ ce.bitsUsed = PadEnd(SubSeq(compressed, 1, Min2(ce.bitsCount, Len(compressed))),
                                   ce.bitsCount)
           /\ full = ce.bitsUsed \o ae.bitsUsed
           /\ Len(full) = output.totalBitsEmbedded
           /\ IF ce.insufficientBits \/ ae.insufficientBits
              THEN /\ Len(full) > Len(compressed)
                   /\ full = compressed \o Zeros(Len(full) - Len(compressed))
                   /\ ae.remainingBits = <<>>
              ELSE compressed = full \o ae.remainingBits

\* A record in which the comment selector consumed real bits and the angle selector
\* ran out of them after at least one full step.
C22_Witness ==
    /\ FullRecord
    /\ output.commentEmbedding.bitsCount > 0
    /\ ~output.commentEmbedding.insufficientBits
    /\ output.angleEmbedding.insufficientBits
    /\ Len(output.angleEmbedding.selectedAngles) >= 3
    /\ \E i \in DOMAIN output.compression.compressed :
           i > output.commentEmbedding.bitsCount /\ output.compression.compressed[i] = 1

\* A record in which the comment selector itself padded.
CommentPadded ==
    FullRecord /\ output.commentEmbedding.insufficientBits
               /\ output.angleEmbedding.bitsCount > 0

\* A record without padding in which all three parts of the stream are non-empty.
ThreeParts ==
    /\ FullRecord
    /\ ~output.commentEmbedding.insufficientBits
    /\ ~output.angleEmbedding.insufficientBits
    /\ output.commentEmbedding.bitsCount > 0
    /\ output.angleEmbedding.bitsCount > 0
    /\ output.angleEmbedding.remainingBits # <<>>

(***************************************************************************)
(* The needle finder of the first script.                                  *)
(***************************************************************************)

\* The search for the source document ended in one of the failures: invalid input,
\* a response that is not ok, a response without a numeric score, a thrown error.
FinderFailed ==
    /\ "outcome" \in DOMAIN an
    /\ an.outcome \in {"invalid_input", "notOk", "notOkUnreadable", "noScore", "throws"}

\* The warnings main pushes before the search for the source document.
EarlierWarnings ==
    {"Dictionary compression inefficient; used standard encoding.",
     "Padding used in Comment Selection.",
     "Padding used in Angle Selection."}

\* On every failure findNeedleInHaystack returns snippet = null and an errorType.
FinderResultTyped ==
    FinderFailed =>
        /\ an.searchResult.snippet = NotAString
        /\ an.searchResult.errorType \in {"invalid_input", "api_error", "network_error"}
        /\ an.searchResult.error # Null

\* When main returns after a failure, its record is the full one and holds exactly
\* one warning of lines 846-889, naming the failure.
OneFinderWarning ==
    (pc = "done" /\ FinderFailed) =>
        /\ FullRecord
        /\ output.angleEmbedding.snippet = NotAString
        /\ Cardinality({i \in DOMAIN output.warnings :
                          output.warnings[i] \notin EarlierWarnings}) = 1
        /\ output.warnings[Len(output.warnings)]
              = finderWarnings(<<>>, output.angleEmbedding)[1]

\* C23: encoding never fails because of the finder: on every failure
\* findNeedleInHaystack returns, without throwing, snippet = null and a non-null
\* errorType, and main still returns the full record with exactly one added warning
\* about the angle selection.
C23_FinderNeverFailsEncoding ==
    /\ FinderResultTyped
    /\ OneFinderWarning
    /\ pc # "TypeError"

\* A failure of each kind after which main returned its record.
FinderFailureSurvived ==
    pc = "done" /\ FinderFailed /\ an.outcome = "throws" /\ an.sourceQuote = <<113>>

(***************************************************************************)
(* The choices of the DP and the emitted tokens.                           *)
(***************************************************************************)

\* The longest common run of text from i and of txt from o, capped as line 1120 caps it.
LongestRun(text, i, txt, o, gmm) ==
    MaxOf({L \in 0..Min2(gmm, Min2(Len(text) - i, Len(txt) - o)) :
             Substr(text, i, L) = Substr(txt, o, L)})

\* The references open at position i, in match-index order: dictionary index
\* ascending, then offset ascending.
ReferencesInOrder(text, D, i) ==
    LET width == GlobalMaxMatch(D) + 1
        keys == {d * width + o : d \in 0..(Len(D) - 1), o \in 0..(GlobalMaxMatch(D) - 1)}
        open == {k \in keys :
                   LET d == k \div width
                       o == k % width
                   IN o < Len(At(D, d))
                      /\ LongestRun(text, i, At(D, d), o, GlobalMaxMatch(D)) > 2}
        order == SortedSeq(open)
    IN [j \in 1..Len(order) |->
          LET d == order[j] \div width
              o == order[j] % width
          IN [kind |-> "dict", doc |-> d, idx |-> o,
              len |-> LongestRun(text, i, At(D, d), o, GlobalMaxMatch(D))]]

\* The options at position i in enumeration order, each with its cost given dp:
\* the literals by increasing length, then the references.
OptionsInOrder(text, D, dp, i) ==
    LET maxL == Min2(MAX_LITERAL_LEN, Len(text) - i)
        refs == ReferencesInOrder(text, D, i)
    IN [L \in 1..maxL |->
          [choice |-> [kind |-> "literal", doc |-> NullDoc, idx |-> 0, len |-> L],
           cost |-> LiteralWidth(Substr(text, i, L)) + dp[i + L]]]
       \o [j \in 1..Len(refs) |->
             [choice |-> refs[j],
              cost |-> ReferenceWidth(D, refs[j].doc) + dp[i + refs[j].len]]]

\* The first option of minimum cost.
FirstMinimum(opts) ==
    LET m == MinOf({opts[k].cost : k \in DOMAIN opts})
    IN opts[MinOf({k \in DOMAIN opts : opts[k].cost = m})]

\* C24: at each payload position the chosen token is the first minimum-cost option in
\* enumeration order (literals by increasing length, then references by dictionary
\* index and offset ascending), so a literal is kept over an equal-cost reference.
C24_TieBreak ==
    Compressed =>
        LET tab == DPTables(payload, dictionary)
        IN \A i \in 0..(Len(payload) - 1) :
              LET first == FirstMinimum(OptionsInOrder(payload, dictionary, tab.dp, i))
              IN /\ tab.choice[i] = first.choice
                 /\ tab.dp[i] = first.cost

\* Position i has a literal and a reference of the same, minimum, cost.
LiteralTiesReference(i) ==
    LET tab == DPTables(payload, dictionary)
        opts == OptionsInOrder(payload, dictionary, tab.dp, i)
    IN \E k \in DOMAIN opts, j \in DOMAIN opts :
          /\ opts[k].choice.kind = "literal"
          /\ opts[j].choice.kind = "dict"
          /\ opts[k].cost = tab.dp[i]
          /\ opts[j].cost = tab.dp[i]

\* Position i has two references of the same, minimum, cost.
ReferencesTie(i) ==
    LET tab == DPTables(payload, dictionary)
        opts == OptionsInOrder(payload, dictionary, tab.dp, i)
    IN \E k \in DOMAIN opts, j \in DOMAIN opts :
          /\ k < j
          /\ opts[k].choice.kind = "dict"
          /\ opts[j].choice.kind = "dict"
          /\ opts[k].cost = tab.dp[i]
          /\ opts[j].cost = tab.dp[i]

\* A payload whose first position has a literal tied with a reference, and a later
\* position reached by the emission where two references tie.
C24_Witness ==
    /\ Compressed
    /\ LiteralTiesReference(0)
    /\ \E k \in DOMAIN compression.tokens : ReferencesTie(compression.tokens[k].at)

\* C30: the tokens of the emission loop cover the payload contiguously: the first
\* starts at position 0, each has length >= 1 and starts where the previous one
\* ended, the last ends at |payload|, and every reference (d, o, L) has d < |D|,
\* o + L <= |D[d]| and D[d][o..o+L) = payload[i..i+L).
C30_TokensCoverPayload ==
    Compressed =>
        LET toks == compression.tokens
        IN /\ Len(toks) >= 1
           /\ toks[1].at = 0
           /\ \A k \in DOMAIN toks :
                 /\ toks[k].len >= 1
                 /\ k < Len(toks) => toks[k + 1].at = toks[k].at + toks[k].len
                 /\ k = Len(toks) => toks[k].at + toks[k].len = Len(payload)
                 /\ toks[k].kind = "dict" =>
                       /\ toks[k].doc \in 0..(Len(dictionary) - 1)
                       /\ toks[k].idx >= 0
                       /\ toks[k].idx + toks[k].len <= Len(At(dictionary, toks[k].doc))
                       /\ SubSeq(At(dictionary, toks[k].doc),
                                 toks[k].idx + 1, toks[k].idx + toks[k].len)
                            = SubSeq(payload, toks[k].at + 1, toks[k].at + toks[k].len)
           /\ compression.method = "dictionary" => compression.references = References(toks)

\* A literal followed by a reference that starts inside its document and inside the
\* payload.
C30_Witness ==
    /\ Compressed
    /\ \E k \in DOMAIN compression.tokens :
          /\ k > 1
          /\ compression.tokens[k].kind = "dict"
          /\ compression.tokens[k].idx > 0
          /\ compression.tokens[k - 1].kind = "literal"

(***************************************************************************)
(* Padding against truncation.                                             *)
(***************************************************************************)

\* A takeBits call of this run has padded.
HasPadded ==
    \/ pc \in {"commentReturn"} /\ cs.insufficient
    \/ pc \in {"angleSelect", "angleLoop", "warnings"} /\ commentEmb.insufficientBits
    \/ pc = "angleLoop" /\ an.anyInsufficient
    \/ pc = "warnings" /\ angleEmb.insufficientBits

\* The bits the next takeBits call of this run would read.
BitsAhead ==
    IF pc = "commentReturn" THEN cs.remaining
    ELSE IF pc = "angleSelect" THEN bitsIn
    ELSE IF pc = "angleLoop" THEN an.currentBits
    ELSE angleEmb.remainingBits

\* Once a takeBits call has padded, nothing is left of the stream, and the record
\* never holds a padding warning together with a truncation warning.
PaddingExcludesTruncation ==
    /\ HasPadded => BitsAhead = <<>>
    /\ FullRecord =>
          ~ /\ \/ HasWarning("Padding used in Comment Selection.")
                \/ HasWarning("Padding used in Angle Selection.")
             /\ TruncatedReports # {}
    /\ FullRecord =>
          /\ HasWarning("Padding used in Comment Selection.")
                <=> output.commentEmbedding.insufficientBits
          /\ HasWarning("Padding used in Angle Selection.")
                <=> output.angleEmbedding.insufficientBits

\* An angle step taken after a padding, on a pool of at least two angles, pads again
\* (it counts bits though none is left) and selects the first angle of the pool.
PaddedStepSelectsFirst ==
    (AngleStep /\ HasPadded /\ Len(an.availableAngles) >= 2) =>
        /\ an.currentBits = <<>>
        /\ an'.currentBits = <<>>
        /\ an'.anyInsufficient
        /\ an'.totalBitsCount > an.totalBitsCount
        /\ an'.totalBitsUsedStr
              = an.totalBitsUsedStr \o Zeros(an'.totalBitsCount - an.totalBitsCount)
        /\ an'.lastIdx = 0
        /\ an'.selectedAngles = Append(an.selectedAngles, an.availableAngles[1])
        /\ an'.availableAngles = Tail(an.availableAngles)

\* C29: a padding warning and the 'Data truncated' warning never appear in the same
\* record: once any takeBits call pads, the remaining bitstream is empty for every
\* later step, and every later angle step with a pool of at least two angles pads
\* too and selects pool index 0.
C29_PaddingExcludesTruncation ==
    /\ []PaddingExcludesTruncation
    /\ [][PaddedStepSelectsFirst]_vars

\* A record whose comment selector padded and whose angle selector then took three
\* angles or more.
C29_Witness ==
    /\ FullRecord
    /\ HasWarning("Padding used in Comment Selection.")
    /\ HasWarning("Padding used in Angle Selection.")
    /\ Len(output.angleEmbedding.selectedAngles) >= 3
    /\ output.angleEmbedding.bitsCount >= 3

(***************************************************************************)
(* compression.js.                                                         *)
(***************************************************************************)

\* The integer fields of a token as compress writes them, each with the max it is
\* encoded against.
TokenFields(tok) ==
    IF tok.kind = "literal"
    THEN <<[n |-> tok.len, max |-> GlobalMaxMatch(dictionary)]>>
    ELSE <<[n |-> tok.doc, max |-> Len(dictionary)],
           [n |-> tok.idx, max |-> Len(At(dictionary, tok.doc))],
           [n |-> tok.len, max |-> GlobalMaxMatch(dictionary)]>>

\* Every integer field of the emitted tokens has the width decompress reads.
FieldWidthsAgree ==
    pc \in {"textDecompress", "done", "TypeError"} =>
        \A k \in DOMAIN compression.tokens :
            LET f == TokenFields(compression.tokens[k])
            IN \A j \in DOMAIN f :
                  Len(encodeIntGreedy(f[j].n, f[j].max)) = intEncodedLen(1, f[j].max)

\* C25: decompress(compress(payload).compressed) equals the payload for every payload
\* and dictionary, so validationPassed is true: every integer field written by
\* encodeIntGreedy has exactly the width decompress reads with intEncodedLen(1, max).
C25_TextRoundTrip ==
    /\ pc # "TypeError"
    /\ pc = "done" => output.validationPassed
    /\ FieldWidthsAgree

\* The payloads of one-byte letters that never use the dictionary do come back.
PlainLiteralsRoundTrip ==
    (pc = "done" /\ ~output.usedDict /\ \A k \in DOMAIN payload : payload[k] < 128)
        => output.validationPassed

(***************************************************************************)
(* Keyword encoder claims.                                                 *)
(***************************************************************************)

\* C26: decoding the encoded categories reconstructs the payload: once the keyword
\* encoder has returned, validationPassed is true, for every payload and keyword
\* sets, with leftover bits and with clamped indices too.
C26_KeywordRoundTrip ==
    (pc = "done" /\ script # Unset) => output.validationPassed

\* Some entry of the result holds an index other than the one its bits spell.
SomeIndexClamped ==
    \E k \in 1..Len(output.encoded.encoded) :
        LET e == output.encoded.encoded[k]
        IN e.bits_used > 0 /\ e.index # ParseBits(e.bits)

\* What decode returns is the consumed prefix of the payload exactly when no index
\* was clamped, and the validation passes exactly when, besides, nothing is left
\* over.
DecodedIsConsumedPrefix ==
    (pc = "done" /\ script # Unset) =>
        /\ (output.decoded = SubSeq(payload, 1, output.encoded.used_bits))
               <=> ~SomeIndexClamped
        /\ output.validationPassed
               <=> (~SomeIndexClamped /\ output.encoded.leftover_payload = <<>>)

(***************************************************************************)
(* Termination of the chain walk of UnifiedEmbeddingV2 (SpecChainV2).      *)
(***************************************************************************)

\* The walk of UnifiedEmbeddingV2 has started.
WalkingV2 == pc \in {"chainWalkV2", "commentReturnV2", "aborted"}

\* C27: in UnifiedEmbeddingV2 the loop guard makes the ancestor-chain walk terminate
\* for every assignment of parent_id values, cycles that do not pass through the
\* picked comment included: the walk is never stopped from outside, and the chain
\* never holds more entries than there are flattened comments.
C27_ChainWalkTerminatesV2 ==
    /\ pc # "aborted"
    /\ WalkingV2 => Len(script.chain) <= script.n

\* The chain holds the picked comment once, as its last entry, and some other
\* comment twice.
ForeignCycle ==
    /\ \A k \in 1..Len(script.chain) :
          script.chain[k] = script.pickedComment <=> k = Len(script.chain)
    /\ \E i, j \in 1..Len(script.chain) : i # j /\ script.chain[i] = script.chain[j]

\* The walk is stopped from outside only in a parent cycle that does not pass
\* through the picked comment, and a walk that returns holds no comment twice.
OnlyForeignCyclesRun ==
    /\ pc = "aborted" => ForeignCycle
    /\ (pc = "done" /\ script # Unset) =>
          \A i, j \in 1..Len(script.chain) :
              i # j => script.chain[i] # script.chain[j]

\* A walk that came back to the picked comment through a cycle of three comments
\* and returned.
PickedCycleEnds ==
    /\ pc = "done"
    /\ script # Unset
    /\ Len(script.chain) = 3
    /\ script.current = script.pickedComment

(***************************************************************************)
(* The worker pool of the dataset cleaner (SpecCleaner).                   *)
(***************************************************************************)

\* The workers that have been started and have not yet released their slot.
RunningWorkers ==
    {w \in 1..Len(script.files) :
        script.worker[w] \in {"processFile", "atomicAdd", "semReceive"}}

\* The directory entries with extension .json.
JsonEntries == {k \in 1..Len(script.files) : script.files[k]}

\* C28: at most concurrencyLimit = 2 x NumCPU processFile workers run at any time;
\* "Done" is reported only after every started worker has finished and released
\* its semaphore slot; and the reported processedCount is the number of directory
\* entries with extension .json.
C28_WorkerPool ==
    (pc \notin {"main", "panic"}) =>
        /\ Cardinality(RunningWorkers) <= 2 * script.numCPU
        /\ Cardinality(RunningWorkers) <= script.sem
        /\ pc = "done" =>
              /\ \A w \in 1..Len(script.files) :
                    script.worker[w] \in {"none", "finished"}
              /\ \A w \in JsonEntries : script.worker[w] = "finished"
              /\ script.sem = 0
              /\ output.processedCount = Cardinality(JsonEntries)

\* C28 witness: "Done" reported for three .json files and one other entry on one
\* core, where the third worker had to wait for a slot.
C28_Witness ==
    /\ pc = "done"
    /\ script.numCPU = 1
    /\ Len(script.files) = MaxFiles
    /\ Cardinality(JsonEntries) = 3
    /\ output.processedCount = 3
    /\ \E w \in JsonEntries : script.outcome[w] = "failed"

\* main waiting at the full semaphore while concurrencyLimit workers run.
MainBlocked ==
    /\ pc = "semSend"
    /\ script.sem = script.concurrencyLimit
    /\ Cardinality(RunningWorkers) = script.concurrencyLimit

\* One more worker than concurrencyLimit between its start and its wg.Done(): a
\* worker that has released its slot and the workers started since.
OneMoreUnfinished ==
    Cardinality({w \in 1..Len(script.files) :
                    script.worker[w] \notin {"none", "finished"}})
        > script.concurrencyLimit

====
